---- MODULE Spec2Model ----
(***************************************************************************)
(* Pet store inventory services (app.py, one instance per store, sharing   *)
(* one MongoDB database) and the pet order service (pet_order_service.py)  *)
(* that routes purchases across the two stores and keeps the transaction   *)
(* ledger.  Every HTTP call and every database call is one step, so that   *)
(* concurrent requests interleave exactly where the threads of the Flask   *)
(* servers can.                                                            *)
(***************************************************************************)
EXTENDS Integers, Sequences, FiniteSets, TLC

VARIABLES
    petTypes,   \* db.pet_types: set of documents [oid, store_id, type, family, pets]
    pets,       \* db.pets: set of documents [oid, store_id, pet_type_id, name, birthdate, picture]
    images,     \* per store, the files of its IMAGE_DIR
    ledger,     \* db.transactions, in insertion order
    issued,     \* number of purchase identifiers generated so far
    proc,       \* per request thread, its position and locals
    served,     \* history: the responses, in the order returned
    started,    \* number of requests accepted so far
    inserted,   \* number of documents inserted by the stores so far
    failures    \* number of calls left unanswered so far

vars == <<petTypes, pets, images, ledger, issued, proc, served, started, inserted,
         failures>>

----------------------------------------------------------------------------
(* Bounds of the model *)

MaxRequests == 2
MaxFailures == 1

Stores == {1, 2}
Reqs == {1, 2}

----------------------------------------------------------------------------
(* Python / JSON values *)

None == [t |-> "none"]
Absent == [t |-> "absent"]
StrV(s) == [t |-> "str", s |-> s]
IntV(n) == [t |-> "int", n |-> n]

\* str.lower() on the strings of the model
Lower(s) ==
    CASE s = "Bulldog" -> "bulldog"
      [] s = "BULLDOG" -> "bulldog"
      [] s = "Poodle" -> "poodle"
      [] s = "Lazy" -> "lazy"
      [] s = "Lemon" -> "lemon"
      [] s = "Ana" -> "ana"
      [] s = " Ana " -> " ana "
      [] s = "Canidae" -> "canidae"
      [] s = "Felidae" -> "felidae"
      [] s = "Abyssinian" -> "abyssinian"
      [] OTHER -> s

\* str.strip() on the strings of the model
Strip(s) ==
    CASE s = " Ana " -> "Ana"
      [] s = " bulldog " -> "bulldog"
      [] s = " Lazy " -> "Lazy"
      [] s = "  " -> ""
      [] OTHER -> s

\* bool(v) of a value read from the request body
Truthy(v) ==
    CASE v.t = "none" -> FALSE
      [] v.t = "str" -> v.s # ""
      [] v.t = "int" -> v.n # 0
      [] OTHER -> TRUE

IsStr(v) == v.t = "str"
IsInt(v) == v.t = "int"

\* dict.get(key): None for a missing key
Get(v) == IF v.t = "absent" THEN None ELSE v

----------------------------------------------------------------------------
(* MongoDB collections *)

\* The documents of S in natural (insertion) order.
RECURSIVE Natural(_)
Natural(S) ==
    IF S = {} THEN <<>>
    ELSE LET d == CHOOSE x \in S : \A y \in S : x.oid <= y.oid
         IN  <<d>> \o Natural(S \ {d})

\* collection.find_one(query): the first match in natural order, else None
FindOne(S) == IF S = {} THEN None ELSE Natural(S)[1]

TypeDocs(oid, s) == {d \in petTypes : d.oid = oid /\ d.store_id = s}
PetDocs(tid, name, s) ==
    {d \in pets : d.pet_type_id = tid /\ d.name = name /\ d.store_id = s}
PetsOfType(tid, s) == {d \in pets : d.pet_type_id = tid /\ d.store_id = s}

\* {"$pull": {"pets": name}} on a pet-type's list of names
RECURSIVE Pull(_, _)
Pull(names, name) ==
    IF names = <<>> THEN <<>>
    ELSE IF Head(names) = name THEN Pull(Tail(names), name)
    ELSE <<Head(names)>> \o Pull(Tail(names), name)

----------------------------------------------------------------------------
(* Inventory store: the read endpoints the order service calls *)

\* GET /pet-types without query parameters, as answered by store s: the
\* pet-type documents of that store in natural order.
get_pet_types(s) == Natural({d \in petTypes : d.store_id = s})

\* Variant of get_pets: the query on db.pets lacks the pet_type_id filter.
get_pets_AnyType(tid, s) ==
    IF TypeDocs(tid, s) = {} THEN [status |-> 404, body |-> <<>>]
    ELSE LET docs == Natural({d \in pets : d.store_id = s})
         IN  [status |-> 200,
              body |-> [i \in 1..Len(docs) |->
                          [name |-> docs[i].name,
                           birthdate |-> docs[i].birthdate,
                           picture |-> docs[i].picture]]]

\* GET /pet-types/{id}/pets without date filters, as answered by store s:
\* status and body.
get_pets(tid, s) ==
    IF TypeDocs(tid, s) = {} THEN [status |-> 404, body |-> <<>>]
    ELSE LET docs == Natural(PetsOfType(tid, s))
         IN  [status |-> 200,
              body |-> [i \in 1..Len(docs) |->
                          [name |-> docs[i].name,
                           birthdate |-> docs[i].birthdate,
                           picture |-> docs[i].picture]]]

----------------------------------------------------------------------------
(* Order service: helpers of find_available_pet.  ok says whether the HTTP *)
(* call got an answer; without one requests raises and the except branch   *)
(* runs.                                                                   *)

\* The least element of a non-empty set of integers.
Min(S) == CHOOSE x \in S : \A y \in S : x <= y

\* Variant of get_pet_type_id: an unanswered call still yields the id.
get_pet_type_id_Cached(pet_type_name, s, ok) ==
    LET types == get_pet_types(s)
        hits == {i \in 1..Len(types) :
                   Lower(types[i].type) = Lower(pet_type_name)}
    IN  IF hits = {} THEN None ELSE IntV(types[Min(hits)].oid)

get_pet_type_id(pet_type_name, s, ok) ==
    IF ~ok THEN None
    ELSE LET types == get_pet_types(s)
             hits == {i \in 1..Len(types) :
                        Lower(types[i].type) = Lower(pet_type_name)}
         IN  IF hits = {} THEN None ELSE IntV(types[Min(hits)].oid)

\* Variant of get_pets_of_type: the request goes to the other store.
get_pets_of_type_OtherUrl(tid, s, ok) ==
    IF ~ok THEN <<>>
    ELSE LET response == get_pets(tid, 3 - s)
         IN  IF response.status = 200 THEN response.body ELSE <<>>

get_pets_of_type(tid, s, ok) ==
    IF ~ok THEN <<>>
    ELSE LET response == get_pets(tid, s)
         IN  IF response.status = 200 THEN response.body ELSE <<>>

\* store_urls.get(store): the store instance behind the URL, None for no entry
StoreUrl(store) ==
    IF store.t = "int" /\ store.n \in Stores THEN IntV(store.n) ELSE None

----------------------------------------------------------------------------
(* Order service: POST /purchases, validation *)

\* Variant of Validate: a pet name is accepted without a store.
Validate_NameWithoutStore(body) ==
    IF ~body.is_json THEN 415
    ELSE IF ~body.parsed THEN 400
    ELSE IF body.json = "number" THEN 500
    ELSE IF body.purchaser.t = "absent" \/ ~IsStr(body.purchaser) THEN 400
    ELSE IF body.pet_type.t = "absent" \/ ~IsStr(body.pet_type) THEN 400
    ELSE LET store == Get(body.store)
             pet_name == Get(body.pet_name)
         IN  IF store # None /\ ~IsInt(store) THEN 400
             ELSE IF pet_name # None /\ ~IsStr(pet_name) THEN 400
             ELSE IF store # None /\ store.n \notin {1, 2} THEN 400
             ELSE 0

\* The status post_purchase answers before resolution, 0 when the body
\* passes every check.  A body is [is_json, parsed, json, purchaser,
\* pet_type, store, pet_name], a missing key being Absent; json is the kind
\* of JSON value parsed.  The test "purchaser" not in data raises TypeError
\* on a number, and the except branch answers 500.
Validate(body) ==
    IF ~body.is_json THEN 415
    ELSE IF ~body.parsed THEN 400
    ELSE IF body.json = "number" THEN 500
    ELSE IF body.purchaser.t = "absent" \/ ~IsStr(body.purchaser) THEN 400
    ELSE IF body.pet_type.t = "absent" \/ ~IsStr(body.pet_type) THEN 400
    ELSE LET store == Get(body.store)
             pet_name == Get(body.pet_name)
         IN  IF store # None /\ ~IsInt(store) THEN 400
             ELSE IF pet_name # None /\ ~IsStr(pet_name) THEN 400
             ELSE IF store # None /\ store.n \notin {1, 2} THEN 400
             ELSE IF Truthy(pet_name) /\ store = None THEN 400
             ELSE 0

ValidationError(body) ==
    IF Validate(body) = 415 THEN "Expected application/json media type"
    ELSE IF Validate(body) = 500 THEN "Server error"
    ELSE "Malformed data"

\* Variant of Policy: a pet name that is present, even the empty one,
\* selects the policy by name.
Policy_NamePresent(store, pet_name) ==
    IF Truthy(store) /\ pet_name # None THEN 1
    ELSE IF Truthy(store) THEN 2
    ELSE 3

\* The branch of find_available_pet taken for (store, pet_name).
Policy(store, pet_name) ==
    IF Truthy(store) /\ Truthy(pet_name) THEN 1
    ELSE IF Truthy(store) THEN 2
    ELSE 3

----------------------------------------------------------------------------
(* Request threads *)

\* failed and sole are history: the stores that left a call of this request
\* unanswered, and whether the pet found was the only candidate read.
\* The h_ fields are the locals of the store's handler serving the thread's
\* call; direct says that the call comes from a client of the store, not
\* from the order service.
Idle ==
    [pc |-> "idle",
     purchaser |-> "", pet_type |-> "", store |-> None, pet_name |-> None,
     cur |-> 0, tid |-> None, pool |-> <<>>, result |-> None, failed |-> {}, sole |-> FALSE,
     h_store |-> 0, h_tid |-> 0, h_name |-> "", h_pic |-> "NA", h_status |-> 0,
     direct |-> FALSE, h_new |-> None, h_birth |-> "NA", request |-> None]

\* The thread of r answers the request and ends.  The request is the body
\* of a purchase, the header and arguments of a transaction query, None for
\* a call of a client of a store.
Answer(r, request, status, body, failed) ==
    /\ served' = Append(served, [status |-> status, body |-> body,
                                 result |-> proc[r].result, failed |-> failed,
                                 sole |-> proc[r].sole,
                                 store |-> proc[r].store,
                                 pet_name |-> proc[r].pet_name,
                                 request |-> request])
    /\ proc' = [proc EXCEPT ![r] = Idle]

Respond(r, status, body, failed) ==
    Answer(r, proc[r].request, status, body, failed)

ErrorBody(msg) == [error |-> msg]

\* The stores that have left a call of r unanswered, this call included.
Failed(r, s, ok) == proc[r].failed \cup (IF ok THEN {} ELSE {s})

\* The outcomes of a call: answered (TRUE), or left unanswered (FALSE).
Oks == IF failures < MaxFailures THEN BOOLEAN ELSE {TRUE}

Count(ok) == failures' = IF ok THEN failures ELSE failures + 1

----------------------------------------------------------------------------
(* Order service: POST /purchases *)

\* Requests are handed to the first free thread.
FirstFree(r) == \A q \in Reqs : proc[q].pc = "idle" => r <= q

\* The request arrives and is validated; a valid one goes on to resolution.
StartPurchase(r, body) ==
    /\ proc[r].pc = "idle"
    /\ FirstFree(r)
    /\ started < MaxRequests
    /\ started' = started + 1
    /\ IF Validate(body) # 0
       THEN Answer(r, body, Validate(body), ErrorBody(ValidationError(body)), {})
       ELSE LET store == Get(body.store)
                url == StoreUrl(store)
            IN  /\ proc' = [proc EXCEPT ![r] =
                      [Idle EXCEPT !.pc = "f_type",
                                   !.request = body,
                                   !.purchaser = Strip(body.purchaser.s),
                                   !.pet_type = Strip(body.pet_type.s),
                                   !.store = store,
                                   !.pet_name = Get(body.pet_name),
                                   !.cur = IF Truthy(store) THEN url.n ELSE 1]]
                /\ UNCHANGED served
    /\ UNCHANGED <<inserted, petTypes, pets, images, ledger, issued, failures>>

\* find_available_pet returned None.
NotAvailable(r, failed) ==
    Respond(r, 400, ErrorBody("No pet of this type is available"), failed)

\* find_available_pet returned res, taken from the candidates seen: the
\* DELETE request to its store starts.
Found(r, res, failed, seen) ==
    /\ proc' = [proc EXCEPT ![r].pc = "d_type",
                            ![r].result = res,
                            ![r].failed = failed,
                            ![r].sole = (Len(seen) = 1),
                            ![r].pool = IF proc[r].store = None THEN seen ELSE @,
                            ![r].h_store = res.store_url,
                            ![r].h_tid = res.pet_type_id,
                            ![r].h_name = res.pet.name]
    /\ UNCHANGED served

\* Variant of ChooseFromPool: always the first candidate.
ChooseFromPool_First(r, pool, failed) ==
    IF pool = <<>> THEN NotAvailable(r, failed)
    ELSE Found(r, pool[1], failed, pool)

\* random.choice(available_pets), or None for an empty pool (policy 3)
ChooseFromPool(r, pool, failed) ==
    IF pool = <<>> THEN NotAvailable(r, failed)
    ELSE \E i \in 1..Len(pool) : Found(r, pool[i], failed, pool)

\* The loop of policy 3 goes to the next store, or ends.
NextStore(r, pool, failed) ==
    IF proc[r].cur = 1
    THEN /\ proc' = [proc EXCEPT ![r].pc = "f_type", ![r].cur = 2,
                                 ![r].tid = None, ![r].pool = pool,
                                 ![r].failed = failed]
         /\ UNCHANGED served
    ELSE ChooseFromPool(r, pool, failed)

\* get_pet_type_id against the store in turn
CallGetPetTypeId(r) ==
    /\ proc[r].pc = "f_type"
    /\ \E ok \in Oks :
        /\ Count(ok)
        /\ LET p == proc[r]
              tid == get_pet_type_id(p.pet_type, p.cur, ok)
              failed == Failed(r, p.cur, ok)
          IN  IF tid # None
              THEN /\ proc' = [proc EXCEPT ![r].pc = "f_pets", ![r].tid = tid]
                   /\ UNCHANGED served
              ELSE IF Policy(p.store, p.pet_name) = 3
              THEN NextStore(r, p.pool, failed)
              ELSE NotAvailable(r, failed)
    /\ UNCHANGED <<inserted, petTypes, pets, images, ledger, issued, started>>

\* Variant of Candidate: tagged with the other store.
Candidate_OtherStore(pet, store, tid, s) ==
    [pet |-> pet, store |-> 3 - store, pet_type_id |-> tid, store_url |-> s]

\* The result record find_available_pet builds for one listed pet.
Candidate(pet, store, tid, s) ==
    [pet |-> pet, store |-> store, pet_type_id |-> tid, store_url |-> s]

\* Variant of FindByName: the first listed pet, whatever its name.
FindByName_First(listed, pet_name) ==
    IF listed = <<>> THEN None ELSE listed[1]

\* Variant of FindByName: the names are compared ignoring letter case.
FindByName_AnyCase(listed, pet_name) ==
    LET named == {i \in 1..Len(listed) : Lower(listed[i].name) = Lower(pet_name)}
    IN  IF named = {} THEN None ELSE listed[Min(named)]

\* Policy 1: the first listed pet named pet_name, None when there is none.
FindByName(listed, pet_name) ==
    LET named == {i \in 1..Len(listed) : listed[i].name = pet_name}
    IN  IF named = {} THEN None ELSE listed[Min(named)]

\* get_pets_of_type against the store in turn, and what each policy does
\* with the list.
CallGetPetsOfType(r) ==
    /\ proc[r].pc = "f_pets"
    /\ \E ok \in Oks :
        /\ Count(ok)
        /\ LET p == proc[r]
              listed == get_pets_of_type(p.tid.n, p.cur, ok)
              failed == Failed(r, p.cur, ok)
          IN  CASE Policy(p.store, p.pet_name) = 1 ->
                     IF FindByName(listed, p.pet_name.s) = None
                     THEN NotAvailable(r, failed)
                     ELSE Found(r, Candidate(FindByName(listed, p.pet_name.s),
                                             p.store.n, p.tid.n, p.cur),
                                failed, listed)
                [] Policy(p.store, p.pet_name) = 2 ->
                     IF listed = <<>> THEN NotAvailable(r, failed)
                     ELSE \E i \in 1..Len(listed) :
                             Found(r, Candidate(listed[i], p.store.n, p.tid.n, p.cur),
                                   failed, listed)
                [] OTHER ->
                     NextStore(r, p.pool \o
                         [i \in 1..Len(listed) |->
                             Candidate(listed[i], p.cur, p.tid.n, p.cur)], failed)
    /\ UNCHANGED <<inserted, petTypes, pets, images, ledger, issued, started>>

----------------------------------------------------------------------------
(* Inventory store: DELETE /pet-types/{id}/pets/{name}, one database or    *)
(* file-system call per step.  The caller is blocked in                    *)
(* delete_pet_from_store until the store answers.                          *)

\* The store answers the DELETE request with status.
DeleteAnswered(r, status) ==
    proc' = [proc EXCEPT ![r].pc = "d_resp", ![r].h_status = status]

\* No answer, or the answer 500 of the handler's except branch: the store
\* or its database went away under this step.
DeleteFailed(r) ==
    proc' = [proc EXCEPT ![r].pc = "d_resp", ![r].h_status = 500,
                         ![r].failed = @ \cup {proc[r].h_store}]

\* pet_types_collection.find_one({"_id": object_id, "store_id": STORE_ID})
DeleteFindType(r) ==
    /\ proc[r].pc = "d_type"
    /\ \E ok \in Oks :
        /\ Count(ok)
        /\ LET p == proc[r]
           IN  IF ~ok THEN DeleteFailed(r)
               ELSE IF TypeDocs(p.h_tid, p.h_store) = {} THEN DeleteAnswered(r, 404)
               ELSE proc' = [proc EXCEPT ![r].pc = "d_pet"]
    /\ UNCHANGED <<inserted, petTypes, pets, images, ledger, issued, served, started>>

\* pets_collection.find_one({pet_type_id, name, store_id})
DeleteFindPet(r) ==
    /\ proc[r].pc = "d_pet"
    /\ \E ok \in Oks :
        /\ Count(ok)
        /\ LET p == proc[r]
               pet == FindOne(PetDocs(p.h_tid, p.h_name, p.h_store))
           IN  IF ~ok THEN DeleteFailed(r)
               ELSE IF pet = None THEN DeleteAnswered(r, 404)
               ELSE proc' = [proc EXCEPT
                       ![r].pc = IF pet.picture # "NA" THEN "d_exists" ELSE "d_delete",
                       ![r].h_pic = pet.picture]
    /\ UNCHANGED <<inserted, petTypes, pets, images, ledger, issued, served, started>>

\* os.path.exists(image_path)
DeleteImageExists(r) ==
    /\ proc[r].pc = "d_exists"
    /\ \E ok \in Oks :
        /\ Count(ok)
        /\ LET p == proc[r]
           IN  IF ~ok THEN DeleteFailed(r)
               ELSE proc' = [proc EXCEPT ![r].pc =
                       IF p.h_pic \in images[p.h_store] THEN "d_remove" ELSE "d_delete"]
    /\ UNCHANGED <<inserted, petTypes, pets, images, ledger, issued, served, started>>

\* os.remove(image_path): raises when the file is gone
DeleteImageRemove(r) ==
    /\ proc[r].pc = "d_remove"
    /\ \E ok \in Oks :
        /\ Count(ok)
        /\ LET p == proc[r]
           IN  IF ~ok THEN DeleteFailed(r) /\ UNCHANGED images
               ELSE IF p.h_pic \notin images[p.h_store]
               THEN DeleteAnswered(r, 500) /\ UNCHANGED images
               ELSE /\ images' = [images EXCEPT ![p.h_store] = @ \ {p.h_pic}]
                    /\ proc' = [proc EXCEPT ![r].pc = "d_delete"]
    /\ UNCHANGED <<inserted, petTypes, pets, ledger, issued, served, started>>

\* Variant of DeleteOne: the document stays in db.pets.
DeleteOne_Keeps(r) ==
    /\ proc[r].pc = "d_delete"
    /\ \E ok \in Oks :
        /\ Count(ok)
        /\ IF ~ok THEN DeleteFailed(r)
           ELSE proc' = [proc EXCEPT ![r].pc = "d_pull"]
    /\ UNCHANGED <<inserted, petTypes, pets, images, ledger, issued, served, started>>

\* pets_collection.delete_one({pet_type_id, name, store_id})
DeleteOne(r) ==
    /\ proc[r].pc = "d_delete"
    /\ \E ok \in Oks :
        /\ Count(ok)
        /\ LET p == proc[r]
               pet == FindOne(PetDocs(p.h_tid, p.h_name, p.h_store))
           IN  IF ~ok THEN DeleteFailed(r) /\ UNCHANGED pets
               ELSE /\ pets' = IF pet = None THEN pets ELSE pets \ {pet}
                    /\ proc' = [proc EXCEPT ![r].pc = "d_pull"]
    /\ UNCHANGED <<inserted, petTypes, images, ledger, issued, served, started>>

\* pet_types_collection.update_one({_id, store_id}, {"$pull": {"pets": name}})
\* and the answer 204
DeletePull(r) ==
    /\ proc[r].pc = "d_pull"
    /\ \E ok \in Oks :
        /\ Count(ok)
        /\ LET p == proc[r]
           IN  IF ~ok THEN DeleteFailed(r) /\ UNCHANGED petTypes
               ELSE /\ petTypes' =
                         {IF d.oid = p.h_tid /\ d.store_id = p.h_store
                          THEN [d EXCEPT !.pets = Pull(@, p.h_name)] ELSE d :
                          d \in petTypes}
                    /\ DeleteAnswered(r, 204)
    /\ UNCHANGED <<inserted, pets, images, ledger, issued, served, started>>

----------------------------------------------------------------------------
(* Inventory store: DELETE .../pets/{name} called by a client of the store *)

NoBody == [empty |-> TRUE]

\* The request of a client of store s: method and resource, the pet type
\* and the pet name of the URL, the data of the body.
Call(method, s, tid, name, data) ==
    [method |-> method, store_id |-> s, pet_type_id |-> tid, name |-> name,
     data |-> data]

\* A client sends DELETE /pet-types/{tid}/pets/{name} to store s.
StartDelete(r, s, tid, name) ==
    /\ proc[r].pc = "idle"
    /\ FirstFree(r)
    /\ started < MaxRequests
    /\ started' = started + 1
    /\ proc' = [proc EXCEPT ![r] =
                  [Idle EXCEPT !.pc = "d_type", !.direct = TRUE,
                               !.h_store = s, !.h_tid = tid, !.h_name = name]]
    /\ UNCHANGED <<inserted, petTypes, pets, images, ledger, issued, served, failures>>

\* The client gets the answer of the store.
ClientDeleteAnswered(r) ==
    /\ proc[r].pc = "d_resp"
    /\ proc[r].direct
    /\ Respond(r, proc[r].h_status,
               CASE proc[r].h_status = 204 -> NoBody
                 [] proc[r].h_status = 404 -> ErrorBody("Not found")
                 [] OTHER -> ErrorBody("Database error"),
               proc[r].failed)
    /\ UNCHANGED <<inserted, petTypes, pets, images, ledger, issued, started, failures>>

----------------------------------------------------------------------------
(* Inventory store: PUT /pet-types/{id}/pets/{name}, one database call per *)
(* step.  The bodies carry a name and neither birthdate nor picture-url,   *)
(* so the birthdate and the picture of the pet are kept.                   *)

\* A client sends PUT /pet-types/{tid}/pets/{name} with the JSON body
\* {"name": new}, the key missing when new is Absent.
StartPut(r, s, tid, name, new) ==
    /\ proc[r].pc = "idle"
    /\ FirstFree(r)
    /\ started < MaxRequests
    /\ started' = started + 1
    /\ proc' = [proc EXCEPT ![r] =
                  [Idle EXCEPT !.pc = "p_type", !.direct = TRUE,
                               !.h_store = s, !.h_tid = tid, !.h_name = name,
                               !.h_new = new]]
    /\ UNCHANGED <<inserted, petTypes, pets, images, ledger, issued, served, failures>>

\* The except branch of the handler
PutFailed(r) ==
    Respond(r, 500, ErrorBody("Database error"), proc[r].failed \cup {proc[r].h_store})

\* new_name = data["name"].strip()
NewName(p) == Strip(p.h_new.s)

\* pet_types_collection.find_one({"_id": object_id, "store_id": STORE_ID})
PutFindType(r) ==
    /\ proc[r].pc = "p_type"
    /\ \E ok \in Oks :
        /\ Count(ok)
        /\ LET p == proc[r]
           IN  IF ~ok THEN PutFailed(r)
               ELSE IF TypeDocs(p.h_tid, p.h_store) = {}
               THEN Respond(r, 404, ErrorBody("Not found"), p.failed)
               ELSE proc' = [proc EXCEPT ![r].pc = "p_cur"] /\ UNCHANGED served
    /\ UNCHANGED <<inserted, petTypes, pets, images, ledger, issued, started>>

\* pets_collection.find_one({pet_type_id, name, store_id}) for the current
\* pet, then the checks of the body
PutFindCurrent(r) ==
    /\ proc[r].pc = "p_cur"
    /\ \E ok \in Oks :
        /\ Count(ok)
        /\ LET p == proc[r]
               current_pet == FindOne(PetDocs(p.h_tid, p.h_name, p.h_store))
           IN  IF ~ok THEN PutFailed(r)
               ELSE IF current_pet = None
               THEN Respond(r, 404, ErrorBody("Not found"), p.failed)
               ELSE IF p.h_new.t = "absent" \/ ~IsStr(p.h_new)
               THEN Respond(r, 400, ErrorBody("Malformed data"), p.failed)
               ELSE /\ proc' = [proc EXCEPT
                         ![r].pc = IF NewName(p) # p.h_name
                                   THEN "p_conflict" ELSE "p_update",
                         ![r].h_birth = current_pet.birthdate,
                         ![r].h_pic = current_pet.picture]
                    /\ UNCHANGED served
    /\ UNCHANGED <<inserted, petTypes, pets, images, ledger, issued, started>>

\* pets_collection.find_one({pet_type_id, name: new_name, store_id})
PutFindConflict(r) ==
    /\ proc[r].pc = "p_conflict"
    /\ \E ok \in Oks :
        /\ Count(ok)
        /\ LET p == proc[r]
           IN  IF ~ok THEN PutFailed(r)
               ELSE IF PetDocs(p.h_tid, NewName(p), p.h_store) # {}
               THEN Respond(r, 400, ErrorBody("Malformed data"), p.failed)
               ELSE proc' = [proc EXCEPT ![r].pc = "p_update"] /\ UNCHANGED served
    /\ UNCHANGED <<inserted, petTypes, pets, images, ledger, issued, started>>

updated_pet(p) == [name |-> NewName(p), birthdate |-> p.h_birth, picture |-> p.h_pic]

\* pets_collection.update_one({pet_type_id, name, store_id}, {"$set": ...});
\* an unchanged name ends the request with 200
PutUpdate(r) ==
    /\ proc[r].pc = "p_update"
    /\ \E ok \in Oks :
        /\ Count(ok)
        /\ LET p == proc[r]
               pet == FindOne(PetDocs(p.h_tid, p.h_name, p.h_store))
           IN  IF ~ok THEN PutFailed(r) /\ UNCHANGED pets
               ELSE /\ pets' = IF pet = None THEN pets
                               ELSE (pets \ {pet}) \cup
                                    {[pet EXCEPT !.name = NewName(p),
                                                 !.birthdate = p.h_birth,
                                                 !.picture = p.h_pic]}
                    /\ IF NewName(p) # p.h_name
                       THEN proc' = [proc EXCEPT ![r].pc = "p_pull"] /\ UNCHANGED served
                       ELSE Respond(r, 200, updated_pet(p), p.failed)
    /\ UNCHANGED <<inserted, petTypes, images, ledger, issued, started>>

\* pet_types_collection.update_one({_id, store_id}, {"$pull": {"pets": pet_name}})
PutPull(r) ==
    /\ proc[r].pc = "p_pull"
    /\ \E ok \in Oks :
        /\ Count(ok)
        /\ LET p == proc[r]
           IN  IF ~ok THEN PutFailed(r) /\ UNCHANGED petTypes
               ELSE /\ petTypes' =
                         {IF d.oid = p.h_tid /\ d.store_id = p.h_store
                          THEN [d EXCEPT !.pets = Pull(@, p.h_name)] ELSE d :
                          d \in petTypes}
                    /\ proc' = [proc EXCEPT ![r].pc = "p_push"]
                    /\ UNCHANGED served
    /\ UNCHANGED <<inserted, pets, images, ledger, issued, started>>

\* pet_types_collection.update_one({_id, store_id}, {"$push": {"pets": new_name}})
\* and the answer 200
PutPush(r) ==
    /\ proc[r].pc = "p_push"
    /\ \E ok \in Oks :
        /\ Count(ok)
        /\ LET p == proc[r]
           IN  IF ~ok THEN PutFailed(r) /\ UNCHANGED petTypes
               ELSE /\ petTypes' =
                         {IF d.oid = p.h_tid /\ d.store_id = p.h_store
                          THEN [d EXCEPT !.pets = Append(@, NewName(p))] ELSE d :
                          d \in petTypes}
                    /\ Respond(r, 200, updated_pet(p), p.failed)
    /\ UNCHANGED <<inserted, pets, images, ledger, issued, started>>

----------------------------------------------------------------------------
(* Inventory store: POST /pet-types/{id}/pets, one database call per step. *)
(* The bodies carry no picture-url, so no picture is downloaded.           *)

\* The _id that insert_one gives the next document
ObjectId == 100 + inserted + 1

\* The JSON body {"name": name, "birthdate": birthdate}, a key missing when
\* its value is Absent
PetData(name, birthdate) ==
    [is_json |-> TRUE, parsed |-> TRUE, name |-> name, birthdate |-> birthdate]

\* The except branch of the handlers of the store
DatabaseError(r) ==
    Respond(r, 500, ErrorBody("Database error"), proc[r].failed \cup {proc[r].h_store})

\* A client sends POST /pet-types/{tid}/pets to store s.
StartPostPet(r, s, tid, data) ==
    /\ proc[r].pc = "idle"
    /\ FirstFree(r)
    /\ started < MaxRequests
    /\ started' = started + 1
    /\ proc' = [proc EXCEPT ![r] =
                  [Idle EXCEPT !.pc = "c_type", !.direct = TRUE,
                               !.h_store = s, !.h_tid = tid,
                               !.request = Call("POST pet", s, tid, None, data)]]
    /\ UNCHANGED <<petTypes, pets, images, ledger, issued, served, inserted, failures>>

\* pet_types_collection.find_one({"_id": object_id, "store_id": STORE_ID}),
\* then the checks of the body and pet_name = data["name"].strip()
PostPetFindType(r) ==
    /\ proc[r].pc = "c_type"
    /\ \E ok \in Oks :
        /\ Count(ok)
        /\ LET p == proc[r]
               data == p.request.data
           IN  IF ~ok THEN DatabaseError(r)
               ELSE IF TypeDocs(p.h_tid, p.h_store) = {}
               THEN Respond(r, 404, ErrorBody("Not found"), p.failed)
               ELSE IF ~data.is_json
               THEN Respond(r, 415, ErrorBody("Expected application/json media type"),
                            p.failed)
               ELSE IF ~data.parsed \/ data.name.t = "absent" \/ ~IsStr(data.name)
               THEN Respond(r, 400, ErrorBody("Malformed data"), p.failed)
               ELSE /\ proc' = [proc EXCEPT ![r].pc = "c_exists",
                                            ![r].h_name = Strip(data.name.s)]
                    /\ UNCHANGED served
    /\ UNCHANGED <<inserted, petTypes, pets, images, ledger, issued, started>>

\* Variant of PostPetFindExisting: the birthdate of the body is dropped.
PostPetFindExisting_NoBirthdate(r) ==
    /\ proc[r].pc = "c_exists"
    /\ \E ok \in Oks :
        /\ Count(ok)
        /\ LET p == proc[r]
           IN  IF ~ok THEN DatabaseError(r)
               ELSE IF PetDocs(p.h_tid, p.h_name, p.h_store) # {}
               THEN Respond(r, 400, ErrorBody("Malformed data"), p.failed)
               ELSE /\ proc' = [proc EXCEPT ![r].pc = "c_insert", ![r].h_birth = "NA"]
                    /\ UNCHANGED served
    /\ UNCHANGED <<inserted, petTypes, pets, images, ledger, issued, started>>

\* pets_collection.find_one({pet_type_id, name: pet_name, store_id}), then
\* the birthdate of the body, "NA" when it has none
PostPetFindExisting(r) ==
    /\ proc[r].pc = "c_exists"
    /\ \E ok \in Oks :
        /\ Count(ok)
        /\ LET p == proc[r]
               birthdate == Get(p.request.data.birthdate)
           IN  IF ~ok THEN DatabaseError(r)
               ELSE IF PetDocs(p.h_tid, p.h_name, p.h_store) # {}
               THEN Respond(r, 400, ErrorBody("Malformed data"), p.failed)
               ELSE /\ proc' = [proc EXCEPT ![r].pc = "c_insert",
                                  ![r].h_birth = IF birthdate = None THEN "NA"
                                                 ELSE birthdate.s]
                    /\ UNCHANGED served
    /\ UNCHANGED <<inserted, petTypes, pets, images, ledger, issued, started>>

pet_obj(p) == [name |-> p.h_name, birthdate |-> p.h_birth, picture |-> "NA"]

\* pets_collection.insert_one(pet_obj)
PostPetInsert(r) ==
    /\ proc[r].pc = "c_insert"
    /\ \E ok \in Oks :
        /\ Count(ok)
        /\ LET p == proc[r]
           IN  IF ~ok THEN DatabaseError(r) /\ UNCHANGED <<pets, inserted>>
               ELSE /\ pets' = pets \cup
                                 {[oid |-> ObjectId, store_id |-> p.h_store,
                                   pet_type_id |-> p.h_tid, name |-> p.h_name,
                                   birthdate |-> p.h_birth, picture |-> "NA"]}
                    /\ inserted' = inserted + 1
                    /\ proc' = [proc EXCEPT ![r].pc = "c_push"]
                    /\ UNCHANGED served
    /\ UNCHANGED <<petTypes, images, ledger, issued, started>>

\* pet_types_collection.update_one({_id, store_id}, {"$push": {"pets": pet_name}})
\* and the answer 201
PostPetPush(r) ==
    /\ proc[r].pc = "c_push"
    /\ \E ok \in Oks :
        /\ Count(ok)
        /\ LET p == proc[r]
           IN  IF ~ok THEN DatabaseError(r) /\ UNCHANGED petTypes
               ELSE /\ petTypes' =
                         {IF d.oid = p.h_tid /\ d.store_id = p.h_store
                          THEN [d EXCEPT !.pets = Append(@, p.h_name)] ELSE d :
                          d \in petTypes}
                    /\ Respond(r, 201, pet_obj(p), p.failed)
    /\ UNCHANGED <<inserted, pets, images, ledger, issued, started>>

----------------------------------------------------------------------------
(* Inventory store: DELETE /pet-types/{id}, one database call per step     *)

\* A client sends DELETE /pet-types/{tid} to store s.
StartDeleteType(r, s, tid) ==
    /\ proc[r].pc = "idle"
    /\ FirstFree(r)
    /\ started < MaxRequests
    /\ started' = started + 1
    /\ proc' = [proc EXCEPT ![r] =
                  [Idle EXCEPT !.pc = "t_find", !.direct = TRUE,
                               !.h_store = s, !.h_tid = tid,
                               !.request = Call("DELETE pet-type", s, tid, None, None)]]
    /\ UNCHANGED <<petTypes, pets, images, ledger, issued, served, inserted, failures>>

\* pet_types_collection.find_one({"_id": object_id, "store_id": STORE_ID})
\* and the check of its list of pets
DeleteTypeFind(r) ==
    /\ proc[r].pc = "t_find"
    /\ \E ok \in Oks :
        /\ Count(ok)
        /\ LET p == proc[r]
               pet_type == FindOne(TypeDocs(p.h_tid, p.h_store))
           IN  IF ~ok THEN DatabaseError(r)
               ELSE IF pet_type = None
               THEN Respond(r, 404, ErrorBody("Not found"), p.failed)
               ELSE IF pet_type.pets # <<>>
               THEN Respond(r, 400, ErrorBody("Malformed data"), p.failed)
               ELSE proc' = [proc EXCEPT ![r].pc = "t_delete"] /\ UNCHANGED served
    /\ UNCHANGED <<inserted, petTypes, pets, images, ledger, issued, started>>

\* pet_types_collection.delete_one({"_id": object_id, "store_id": STORE_ID})
DeleteTypeOne(r) ==
    /\ proc[r].pc = "t_delete"
    /\ \E ok \in Oks :
        /\ Count(ok)
        /\ LET p == proc[r]
           IN  IF ~ok THEN DatabaseError(r) /\ UNCHANGED petTypes
               ELSE /\ petTypes' = petTypes \ TypeDocs(p.h_tid, p.h_store)
                    /\ proc' = [proc EXCEPT ![r].pc = "t_many"]
                    /\ UNCHANGED served
    /\ UNCHANGED <<inserted, pets, images, ledger, issued, started>>

\* pets_collection.delete_many({pet_type_id, store_id}) and the answer 204
DeleteTypeMany(r) ==
    /\ proc[r].pc = "t_many"
    /\ \E ok \in Oks :
        /\ Count(ok)
        /\ LET p == proc[r]
           IN  IF ~ok THEN DatabaseError(r) /\ UNCHANGED pets
               ELSE /\ pets' = pets \ PetsOfType(p.h_tid, p.h_store)
                    /\ Respond(r, 204, NoBody, p.failed)
    /\ UNCHANGED <<inserted, petTypes, images, ledger, issued, started>>

----------------------------------------------------------------------------
(* Inventory store: POST /pet-types, one database or API call per step     *)

\* The JSON body {"type": type}, the key missing when type is Absent
TypeData(type) == [is_json |-> TRUE, parsed |-> TRUE, type |-> type]

\* The taxonomy family the Ninja API gives for an animal name, None for a
\* name it has no exact match for (letter case ignored)
NinjaFamily(animal_name) ==
    CASE Lower(animal_name) = "bulldog" -> StrV("Canidae")
      [] Lower(animal_name) = "poodle" -> StrV("Canidae")
      [] Lower(animal_name) = "abyssinian" -> StrV("Felidae")
      [] OTHER -> None

\* The pet-type document as the store returns it
TypeView(d) == [id |-> d.oid, type |-> d.type, family |-> d.family, pets |-> d.pets]

\* A client sends POST /pet-types to store s; the body is checked first.
StartPostType(r, s, data) ==
    /\ proc[r].pc = "idle"
    /\ FirstFree(r)
    /\ started < MaxRequests
    /\ started' = started + 1
    /\ LET call == Call("POST pet-type", s, None, None, data)
       IN  IF ~data.is_json
           THEN Answer(r, call, 415,
                       ErrorBody("Expected application/json media type"), {})
           ELSE IF ~data.parsed \/ data.type.t = "absent" \/ ~IsStr(data.type)
           THEN Answer(r, call, 400, ErrorBody("Malformed data"), {})
           ELSE /\ proc' = [proc EXCEPT ![r] =
                             [Idle EXCEPT !.pc = "y_find", !.direct = TRUE,
                                          !.h_store = s,
                                          !.h_name = Strip(data.type.s),
                                          !.request = call]]
                /\ UNCHANGED served
    /\ UNCHANGED <<petTypes, pets, images, ledger, issued, inserted, failures>>

\* Variant of PostTypeFind: the type is looked up in every store.
PostTypeFind_AnyStore(r) ==
    /\ proc[r].pc = "y_find"
    /\ \E ok \in Oks :
        /\ Count(ok)
        /\ LET p == proc[r]
           IN  IF ~ok THEN DatabaseError(r)
               ELSE IF \E d \in petTypes : Lower(d.type) = Lower(p.h_name)
               THEN Respond(r, 400, ErrorBody("Malformed data"), p.failed)
               ELSE proc' = [proc EXCEPT ![r].pc = "y_fetch"] /\ UNCHANGED served
    /\ UNCHANGED <<inserted, petTypes, pets, images, ledger, issued, started>>

\* pet_types_collection.find_one({store_id, type: ^animal_type$ ignoring case})
PostTypeFind(r) ==
    /\ proc[r].pc = "y_find"
    /\ \E ok \in Oks :
        /\ Count(ok)
        /\ LET p == proc[r]
           IN  IF ~ok THEN DatabaseError(r)
               ELSE IF \E d \in petTypes : /\ d.store_id = p.h_store
                                           /\ Lower(d.type) = Lower(p.h_name)
               THEN Respond(r, 400, ErrorBody("Malformed data"), p.failed)
               ELSE proc' = [proc EXCEPT ![r].pc = "y_fetch"] /\ UNCHANGED served
    /\ UNCHANGED <<inserted, petTypes, pets, images, ledger, issued, started>>

\* fetch_animal_info(animal_type): an API error gives 500, no exact match 400
PostTypeFetch(r) ==
    /\ proc[r].pc = "y_fetch"
    /\ \E ok \in Oks :
        /\ Count(ok)
        /\ LET p == proc[r]
           IN  IF ~ok
               THEN Respond(r, 500, [server_error |-> "API response code"], p.failed)
               ELSE IF NinjaFamily(p.h_name) = None
               THEN Respond(r, 400, ErrorBody("Malformed data"), p.failed)
               ELSE proc' = [proc EXCEPT ![r].pc = "y_insert"] /\ UNCHANGED served
    /\ UNCHANGED <<inserted, petTypes, pets, images, ledger, issued, started>>

\* pet_types_collection.insert_one(pet_type_obj) and the answer 201
PostTypeInsert(r) ==
    /\ proc[r].pc = "y_insert"
    /\ \E ok \in Oks :
        /\ Count(ok)
        /\ LET p == proc[r]
               pet_type_obj == [oid |-> ObjectId, store_id |-> p.h_store,
                                type |-> p.h_name,
                                family |-> NinjaFamily(p.h_name).s,
                                pets |-> <<>>]
           IN  IF ~ok THEN DatabaseError(r) /\ UNCHANGED <<petTypes, inserted>>
               ELSE /\ petTypes' = petTypes \cup {pet_type_obj}
                    /\ inserted' = inserted + 1
                    /\ Respond(r, 201, TypeView(pet_type_obj), p.failed)
    /\ UNCHANGED <<pets, images, ledger, issued, started>>

----------------------------------------------------------------------------
(* Inventory store: the read endpoints called by a client of the store     *)

\* GET /pet-types?family=value as answered by store s, without the filter
\* when family is Absent: the documents in natural order.
query_pet_types(s, family) ==
    LET docs == Natural({d \in petTypes :
                           /\ d.store_id = s
                           /\ family.t = "absent" \/ Lower(d.family) = Lower(family.s)})
    IN  [i \in 1..Len(docs) |-> TypeView(docs[i])]

\* A client sends GET /pet-types to store s and gets the answer.
GetPetTypes(r, s, family) ==
    /\ proc[r].pc = "idle"
    /\ FirstFree(r)
    /\ started < MaxRequests
    /\ started' = started + 1
    /\ \E ok \in Oks :
        /\ Count(ok)
        /\ LET call == Call("GET pet-types", s, None, None, family)
           IN  IF ~ok THEN Answer(r, call, 500, ErrorBody("Database error"), {s})
               ELSE Answer(r, call, 200, query_pet_types(s, family), {})
    /\ UNCHANGED <<petTypes, pets, images, ledger, issued, inserted>>

\* A client sends GET /pet-types/{tid}/pets to store s and gets the answer.
GetPets(r, s, tid) ==
    /\ proc[r].pc = "idle"
    /\ FirstFree(r)
    /\ started < MaxRequests
    /\ started' = started + 1
    /\ \E ok \in Oks :
        /\ Count(ok)
        /\ LET call == Call("GET pets", s, tid, None, None)
               response == get_pets(tid, s)
           IN  IF ~ok THEN Answer(r, call, 500, ErrorBody("Database error"), {s})
               ELSE IF response.status = 404
               THEN Answer(r, call, 404, ErrorBody("Not found"), {})
               ELSE Answer(r, call, 200, response.body, {})
    /\ UNCHANGED <<petTypes, pets, images, ledger, issued, inserted>>

----------------------------------------------------------------------------
(* Order service: after the removal *)

\* Variant of delete_pet_from_store: the status is not looked at.
delete_pet_from_store_Any(status) == TRUE

\* Variant of delete_pet_from_store: only "not found" counts as a failure.
delete_pet_from_store_Not404(status) == status # 404

\* delete_pet_from_store: response.status_code == 204
delete_pet_from_store(status) == status = 204

\* Variant of Uuid4: the identifier of the call before is returned again.
Uuid4_Reused == issued

\* str(uuid.uuid4()): an identifier no earlier call returned
Uuid4 == issued + 1

\* Variant of Transaction: the store recorded is the first one the request
\* asks for, not the one the pet was found in.
Transaction_FirstAsked(p, purchase_id) ==
    [purchaser |-> p.purchaser, pet_type |-> p.pet_type,
     store |-> IF Truthy(p.store) THEN p.store.n ELSE 1,
     purchase_id |-> purchase_id]

Transaction(p, purchase_id) ==
    [purchaser |-> p.purchaser, pet_type |-> p.pet_type,
     store |-> p.result.store, purchase_id |-> purchase_id]

Purchase(p, purchase_id) ==
    [purchaser |-> p.purchaser, pet_type |-> p.pet_type,
     store |-> p.result.store, pet_name |-> p.result.pet.name,
     purchase_id |-> purchase_id]

\* Variant of RemovalFailed: resolution is run again.
RemovalFailed_Retries(r) ==
    /\ proc[r].pc = "d_resp"
    /\ ~proc[r].direct
    /\ ~delete_pet_from_store(proc[r].h_status)
    /\ proc' = [proc EXCEPT ![r].pc = "f_type", ![r].tid = None,
                            ![r].pool = <<>>,
                            ![r].cur = IF Truthy(proc[r].store)
                                       THEN proc[r].store.n ELSE 1]
    /\ UNCHANGED <<inserted, petTypes, pets, images, ledger, issued, served, started, failures>>

\* The removal was not confirmed: 500, nothing else happens.
RemovalFailed(r) ==
    /\ proc[r].pc = "d_resp"
    /\ ~proc[r].direct
    /\ ~delete_pet_from_store(proc[r].h_status)
    /\ Respond(r, 500, ErrorBody("Failed to remove pet from store"), proc[r].failed)
    /\ UNCHANGED <<inserted, petTypes, pets, images, ledger, issued, started, failures>>

\* Variant of RecordTransaction: the transaction replaces the ledger.
RecordTransaction_Replaces(r) ==
    /\ proc[r].pc = "d_resp"
    /\ ~proc[r].direct
    /\ delete_pet_from_store(proc[r].h_status)
    /\ issued' = issued + 1
    /\ ledger' = <<Transaction(proc[r], issued + 1)>>
    /\ Respond(r, 201, Purchase(proc[r], issued + 1), proc[r].failed)
    /\ UNCHANGED <<inserted, petTypes, pets, images, started, failures>>

\* The removal was confirmed, transactions_collection.insert_one(transaction)
\* succeeds: 201
RecordTransaction(r) ==
    /\ proc[r].pc = "d_resp"
    /\ ~proc[r].direct
    /\ delete_pet_from_store(proc[r].h_status)
    /\ issued' = issued + 1
    /\ ledger' = Append(ledger, Transaction(proc[r], Uuid4))
    /\ Respond(r, 201, Purchase(proc[r], Uuid4), proc[r].failed)
    /\ UNCHANGED <<inserted, petTypes, pets, images, started, failures>>

\* Variant of RecordFails: the transaction is in the ledger all the same.
RecordFails_Records(r) ==
    /\ proc[r].pc = "d_resp"
    /\ ~proc[r].direct
    /\ delete_pet_from_store(proc[r].h_status)
    /\ failures < MaxFailures
    /\ failures' = failures + 1
    /\ issued' = issued + 1
    /\ ledger' = Append(ledger, Transaction(proc[r], issued + 1))
    /\ Respond(r, 500, ErrorBody("Server error"), proc[r].failed)
    /\ UNCHANGED <<inserted, petTypes, pets, images, started>>

\* The removal was confirmed, insert_one raises (the ledger database does
\* not answer): the except branch of post_purchase answers 500
RecordFails(r) ==
    /\ proc[r].pc = "d_resp"
    /\ ~proc[r].direct
    /\ delete_pet_from_store(proc[r].h_status)
    /\ failures < MaxFailures
    /\ failures' = failures + 1
    /\ issued' = issued + 1
    /\ Respond(r, 500, ErrorBody("Server error"), proc[r].failed)
    /\ UNCHANGED <<inserted, petTypes, pets, images, ledger, started>>

----------------------------------------------------------------------------
(* Order service: GET /transactions.  A request is [header, args]: the     *)
(* value of the OwnerPC header (None when absent) and the query arguments, *)
(* a function from keys to text.  Purchase identifier n is written "id-n". *)

OwnerPC == "LovesPetsL2M3n4"

\* Variant of Authorized: any header is accepted.
Authorized_Present(header) == header # None

\* owner_header != "LovesPetsL2M3n4" does not hold
Authorized(header) == header = StrV(OwnerPC)

\* int(value), None standing for ValueError
IntOf(value) ==
    CASE value = "1" -> IntV(1)
      [] value = "2" -> IntV(2)
      [] value = "02" -> IntV(2)
      [] OTHER -> None

\* The purchase identifier a text is the written form of, 0 for none
PurchaseIdOf(value) ==
    CASE value = "id-1" -> 1
      [] value = "id-2" -> 2
      [] value = "id-3" -> 3
      [] value = "id-4" -> 4
      [] OTHER -> 0

RecognizedKeys == {"purchaser", "pet-type", "store", "purchase-id"}

\* Variant of BuildQuery: the store value is kept as text.
BuildQuery_StoreAsText(args) ==
    [key \in DOMAIN args \cap RecognizedKeys |-> StrV(args[key])]

\* The query built from the arguments: the recognized keys, the store value
\* as an integer when int() takes it.
BuildQuery(args) ==
    [key \in DOMAIN args \cap RecognizedKeys |->
        IF key = "store" /\ IntOf(args[key]) # None
        THEN IntOf(args[key]) ELSE StrV(args[key])]

\* Whether the field of a ledger entry named by key equals the query value.
FieldEquals(entry, key, v) ==
    CASE key = "purchaser" -> v.t = "str" /\ entry.purchaser = v.s
      [] key = "pet-type" -> v.t = "str" /\ entry.pet_type = v.s
      [] key = "store" -> v.t = "int" /\ entry.store = v.n
      [] key = "purchase-id" -> v.t = "str" /\ entry.purchase_id = PurchaseIdOf(v.s)
      [] OTHER -> FALSE

\* list(transactions_collection.find(query, {"_id": 0}))
Find(query) ==
    LET Test(entry) == \A key \in DOMAIN query : FieldEquals(entry, key, query[key])
    IN  SelectSeq(ledger, Test)

\* The request arrives; the header is checked before anything else.
StartQuery(r, header, args) ==
    /\ proc[r].pc = "idle"
    /\ FirstFree(r)
    /\ started < MaxRequests
    /\ started' = started + 1
    /\ IF ~Authorized(header)
       THEN Answer(r, [header |-> header, args |-> args],
                   401, ErrorBody("Unauthorized"), {})
       ELSE /\ proc' = [proc EXCEPT ![r] =
                  [Idle EXCEPT !.pc = "q_find",
                               !.request = [header |-> header, args |-> args]]]
            /\ UNCHANGED served
    /\ UNCHANGED <<inserted, petTypes, pets, images, ledger, issued, failures>>

\* The query is built and the ledger is read; 500 when the ledger database
\* does not answer.
QueryFind(r) ==
    /\ proc[r].pc = "q_find"
    /\ \E ok \in Oks :
        /\ Count(ok)
        /\ IF ok
           THEN Respond(r, 200, Find(BuildQuery(proc[r].request.args)), {})
           ELSE Respond(r, 500, ErrorBody("Server error"), {})
    /\ UNCHANGED <<inserted, petTypes, pets, images, ledger, issued, started>>

----------------------------------------------------------------------------
(* Initial inventories *)

BulldogNames == {"Lazy", "Lemon"}

Birthdate(name) == IF name = "Lazy" THEN "07-08-2018" ELSE "27-03-2020"
Picture(name) == IF name = "Lemon" THEN "Lemon-bulldog.jpg" ELSE "NA"
PetOid(s, name) == 10 * s + (IF name = "Lazy" THEN 1 ELSE 2)

PetDoc(s, tid, name) ==
    [oid |-> PetOid(s, name), store_id |-> s, pet_type_id |-> tid,
     name |-> name, birthdate |-> Birthdate(name), picture |-> Picture(name)]

NameList(docs) == [i \in 1..Len(docs) |-> docs[i].name]

\* The pet type "bulldog" of store s (its id is s) holding the pets named N.
BulldogType(s, N) ==
    [oid |-> s, store_id |-> s, type |-> "bulldog", family |-> "Canidae",
     pets |-> NameList(Natural({PetDoc(s, s, n) : n \in N}))]

\* Store 1 also keeps a pet type "poodle" with one pet, named like a bulldog.
PoodleType ==
    [oid |-> 3, store_id |-> 1, type |-> "poodle", family |-> "Canidae",
     pets |-> <<"Lazy">>]
PoodlePet ==
    [oid |-> 5, store_id |-> 1, pet_type_id |-> 3,
     name |-> "Lazy", birthdate |-> "NA", picture |-> "NA"]

\* has[s]: whether store s has the type; names[s]: its pets
InitInventory(has, names) ==
    /\ petTypes = {BulldogType(s, names[s]) : s \in {x \in Stores : has[x]}}
                    \cup {PoodleType}
    /\ pets = UNION {{PetDoc(s, s, n) : n \in names[s]} : s \in Stores}
                    \cup {PoodlePet}
    /\ images = [s \in Stores |-> {Picture(n) : n \in names[s]} \ {"NA"}]

Inventories ==
    {hn \in [Stores -> BOOLEAN] \X [Stores -> {{}, {"Lazy"}, BulldogNames}] :
        \A s \in Stores : hn[1][s] <=> hn[2][s] # {}}

InitRest ==
    /\ ledger = <<>>
    /\ issued = 0
    /\ proc = [r \in Reqs |-> Idle]
    /\ served = <<>>
    /\ started = 0
    /\ inserted = 0
    /\ failures = 0

Init ==
    /\ \E hn \in Inventories : InitInventory(hn[1], hn[2])
    /\ InitRest

----------------------------------------------------------------------------
(* Purchase requests of the specification Spec *)

Body(purchaser, pet_type, store, pet_name) ==
    [is_json |-> TRUE, parsed |-> TRUE, json |-> "object", purchaser |-> purchaser,
     pet_type |-> pet_type, store |-> store, pet_name |-> pet_name]

Bodies ==
    {Body(StrV("Ana"), StrV("Bulldog"), st, pn) :
        st \in {Absent, IntV(1), IntV(2)}, pn \in {Absent, StrV("Lazy")}}

Next ==
    \/ \E r \in Reqs, body \in Bodies : StartPurchase(r, body)
    \/ \E r \in Reqs : CallGetPetTypeId(r)
    \/ \E r \in Reqs : CallGetPetsOfType(r)
    \/ \E r \in Reqs : DeleteFindType(r)
    \/ \E r \in Reqs : DeleteFindPet(r)
    \/ \E r \in Reqs : DeleteImageExists(r)
    \/ \E r \in Reqs : DeleteImageRemove(r)
    \/ \E r \in Reqs : DeleteOne(r)
    \/ \E r \in Reqs : DeletePull(r)
    \/ \E r \in Reqs : RemovalFailed(r)
    \/ \E r \in Reqs : RecordTransaction(r)
    \/ \E r \in Reqs : RecordFails(r)

Spec == Init /\ [][Next]_vars

----------------------------------------------------------------------------
(* Purchases by store and pet name, next to clients of the stores that     *)
(* rename and delete pets: the specification SpecInventory                 *)

BodiesNamed ==
    {Body(StrV("Ana"), StrV("Bulldog"), st, StrV("Lazy")) : st \in {IntV(1), IntV(2)}}

\* The names the clients rename a pet to
NewNames == {StrV("Rex"), StrV("Lemon")}

NextInventory ==
    \/ \E r \in Reqs, body \in BodiesNamed : StartPurchase(r, body)
    \/ \E r \in Reqs, s \in Stores, name \in BulldogNames : StartDelete(r, s, s, name)
    \/ \E r \in Reqs, s \in Stores, name \in BulldogNames, new \in NewNames :
          StartPut(r, s, s, name, new)
    \/ \E r \in Reqs : CallGetPetTypeId(r)
    \/ \E r \in Reqs : CallGetPetsOfType(r)
    \/ \E r \in Reqs : DeleteFindType(r)
    \/ \E r \in Reqs : DeleteFindPet(r)
    \/ \E r \in Reqs : DeleteImageExists(r)
    \/ \E r \in Reqs : DeleteImageRemove(r)
    \/ \E r \in Reqs : DeleteOne(r)
    \/ \E r \in Reqs : DeletePull(r)
    \/ \E r \in Reqs : ClientDeleteAnswered(r)
    \/ \E r \in Reqs : PutFindType(r)
    \/ \E r \in Reqs : PutFindCurrent(r)
    \/ \E r \in Reqs : PutFindConflict(r)
    \/ \E r \in Reqs : PutUpdate(r)
    \/ \E r \in Reqs : PutPull(r)
    \/ \E r \in Reqs : PutPush(r)
    \/ \E r \in Reqs : RemovalFailed(r)
    \/ \E r \in Reqs : RecordTransaction(r)
    \/ \E r \in Reqs : RecordFails(r)

SpecInventory == Init /\ [][NextInventory]_vars

----------------------------------------------------------------------------
(* Clients of store 1 that create, rename and delete the pets of the pet   *)
(* type bulldog and delete the type: the specification SpecStore           *)

\* Store 1 has the type bulldog, without pets or with Lazy and Lemon.
InitStore ==
    /\ \E N \in {{}, BulldogNames} :
          /\ petTypes = {BulldogType(1, N)}
          /\ pets = {PetDoc(1, 1, n) : n \in N}
          /\ images = [s \in Stores |->
                          IF s = 1 THEN {Picture(n) : n \in N} \ {"NA"} ELSE {}]
    /\ InitRest

Rex == StrV("Rex")

NextOfStore ==
    \/ \E r \in Reqs : StartPostPet(r, 1, 1, PetData(Rex, Absent))
    \/ \E r \in Reqs, name \in BulldogNames : StartPut(r, 1, 1, name, Rex)
    \/ \E r \in Reqs, name \in BulldogNames : StartDelete(r, 1, 1, name)
    \/ \E r \in Reqs : StartDeleteType(r, 1, 1)
    \/ \E r \in Reqs : PostPetFindType(r)
    \/ \E r \in Reqs : PostPetFindExisting(r)
    \/ \E r \in Reqs : PostPetInsert(r)
    \/ \E r \in Reqs : PostPetPush(r)
    \/ \E r \in Reqs : PutFindType(r)
    \/ \E r \in Reqs : PutFindCurrent(r)
    \/ \E r \in Reqs : PutFindConflict(r)
    \/ \E r \in Reqs : PutUpdate(r)
    \/ \E r \in Reqs : PutPull(r)
    \/ \E r \in Reqs : PutPush(r)
    \/ \E r \in Reqs : DeleteFindType(r)
    \/ \E r \in Reqs : DeleteFindPet(r)
    \/ \E r \in Reqs : DeleteImageExists(r)
    \/ \E r \in Reqs : DeleteImageRemove(r)
    \/ \E r \in Reqs : DeleteOne(r)
    \/ \E r \in Reqs : DeletePull(r)
    \/ \E r \in Reqs : ClientDeleteAnswered(r)
    \/ \E r \in Reqs : DeleteTypeFind(r)
    \/ \E r \in Reqs : DeleteTypeOne(r)
    \/ \E r \in Reqs : DeleteTypeMany(r)

SpecStore == InitStore /\ [][NextOfStore]_vars

----------------------------------------------------------------------------
(* Purchase requests with missing, mistyped and blank fields: the          *)
(* specification SpecValidation                                            *)

Ana == StrV("Ana")
Bulldog == StrV("Bulldog")

\* A request that is not JSON, one whose JSON does not parse, and one whose
\* JSON is a number.
NotJson == [Body(Absent, Absent, Absent, Absent) EXCEPT !.is_json = FALSE, !.parsed = FALSE]
Unparsed == [Body(Absent, Absent, Absent, Absent) EXCEPT !.parsed = FALSE]
JsonNumber == [Body(Absent, Absent, Absent, Absent) EXCEPT !.json = "number"]

BodiesChecked ==
    {NotJson, Unparsed, JsonNumber,
     Body(Ana, Bulldog, IntV(1), Absent),
     Body(Absent, Bulldog, Absent, Absent),
     Body(IntV(7), Bulldog, Absent, Absent),
     Body(StrV("  "), Bulldog, IntV(1), Absent),
     Body(Ana, Absent, Absent, Absent),
     Body(Ana, IntV(7), Absent, Absent),
     Body(Ana, StrV("  "), Absent, Absent),
     Body(Ana, Bulldog, StrV("1"), Absent),
     Body(Ana, Bulldog, IntV(3), Absent),
     Body(Ana, Bulldog, IntV(1), IntV(7)),
     Body(Ana, Bulldog, Absent, StrV("Lazy")),
     Body(Ana, Bulldog, Absent, StrV(""))}

\* Store 1 holds the bulldog Lazy, store 2 the bulldogs Lazy and Lemon.
Stocked ==
    InitInventory([s \in Stores |-> TRUE],
                  [s \in Stores |-> IF s = 1 THEN {"Lazy"} ELSE BulldogNames])

InitValidation == Stocked /\ InitRest

NextValidation ==
    \/ \E r \in Reqs, body \in BodiesChecked : StartPurchase(r, body)
    \/ \E r \in Reqs : CallGetPetTypeId(r)
    \/ \E r \in Reqs : CallGetPetsOfType(r)
    \/ \E r \in Reqs : DeleteFindType(r)
    \/ \E r \in Reqs : DeleteFindPet(r)
    \/ \E r \in Reqs : DeleteImageExists(r)
    \/ \E r \in Reqs : DeleteImageRemove(r)
    \/ \E r \in Reqs : DeleteOne(r)
    \/ \E r \in Reqs : DeletePull(r)
    \/ \E r \in Reqs : RemovalFailed(r)
    \/ \E r \in Reqs : RecordTransaction(r)
    \/ \E r \in Reqs : RecordFails(r)

SpecValidation == InitValidation /\ [][NextValidation]_vars

----------------------------------------------------------------------------
(* Purchases that spell the pet type and the pet name in another letter    *)
(* case than the store: the specification SpecMatching                     *)

BodiesSpelled ==
    {Body(StrV("Ana"), StrV("BULLDOG"), st, pn) :
        st \in {IntV(1), IntV(2)}, pn \in {StrV("Lemon"), StrV("lemon")}}

NextMatching ==
    \/ \E r \in Reqs, body \in BodiesSpelled : StartPurchase(r, body)
    \/ \E r \in Reqs : CallGetPetTypeId(r)
    \/ \E r \in Reqs : CallGetPetsOfType(r)
    \/ \E r \in Reqs : DeleteFindType(r)
    \/ \E r \in Reqs : DeleteFindPet(r)
    \/ \E r \in Reqs : DeleteImageExists(r)
    \/ \E r \in Reqs : DeleteImageRemove(r)
    \/ \E r \in Reqs : DeleteOne(r)
    \/ \E r \in Reqs : DeletePull(r)
    \/ \E r \in Reqs : RemovalFailed(r)
    \/ \E r \in Reqs : RecordTransaction(r)
    \/ \E r \in Reqs : RecordFails(r)

SpecMatching == InitValidation /\ [][NextMatching]_vars

----------------------------------------------------------------------------
(* Clients of both stores that create and delete pet types and pets and    *)
(* read the listings: the specification SpecIsolation.  Pets are created   *)
(* and deleted under the bulldog type of store 2, by requests sent to      *)
(* either store.                                                           *)

\* The pet types the clients name in a URL: the bulldog types of the two
\* stores and the first type created.
TypeIds == {1, 2, 101}

TypesPosted == {TypeData(StrV("Abyssinian"))}

PetsPosted == {PetData(Rex, Absent), PetData(Rex, StrV("01-01-2020"))}

Families == {Absent, StrV("canidae")}

NextIsolation ==
    \/ \E r \in Reqs, s \in Stores, data \in TypesPosted : StartPostType(r, s, data)
    \/ \E r \in Reqs, s \in Stores, tid \in TypeIds : StartDeleteType(r, s, tid)
    \/ \E r \in Reqs, s \in Stores, data \in PetsPosted : StartPostPet(r, s, 2, data)
    \/ \E r \in Reqs, s \in Stores : StartDelete(r, s, 2, "Lemon")
    \/ \E r \in Reqs, s \in Stores, family \in Families : GetPetTypes(r, s, family)
    \/ \E r \in Reqs, s \in Stores, tid \in TypeIds : GetPets(r, s, tid)
    \/ \E r \in Reqs : PostTypeFind(r)
    \/ \E r \in Reqs : PostTypeFetch(r)
    \/ \E r \in Reqs : PostTypeInsert(r)
    \/ \E r \in Reqs : DeleteTypeFind(r)
    \/ \E r \in Reqs : DeleteTypeOne(r)
    \/ \E r \in Reqs : DeleteTypeMany(r)
    \/ \E r \in Reqs : PostPetFindType(r)
    \/ \E r \in Reqs : PostPetFindExisting(r)
    \/ \E r \in Reqs : PostPetInsert(r)
    \/ \E r \in Reqs : PostPetPush(r)
    \/ \E r \in Reqs : DeleteFindType(r)
    \/ \E r \in Reqs : DeleteFindPet(r)
    \/ \E r \in Reqs : DeleteImageExists(r)
    \/ \E r \in Reqs : DeleteImageRemove(r)
    \/ \E r \in Reqs : DeleteOne(r)
    \/ \E r \in Reqs : DeletePull(r)
    \/ \E r \in Reqs : ClientDeleteAnswered(r)

InitIsolation == Stocked /\ InitRest

SpecIsolation == InitIsolation /\ [][NextIsolation]_vars

----------------------------------------------------------------------------
(* Purchases that name a store and carry the empty string as pet name:     *)
(* the specification SpecEmptyName                                         *)

BodiesUnnamed ==
    {Body(StrV("Ana"), StrV("Bulldog"), st, StrV("")) : st \in {IntV(1), IntV(2)}}

NextEmptyName ==
    \/ \E r \in Reqs, body \in BodiesUnnamed : StartPurchase(r, body)
    \/ \E r \in Reqs : CallGetPetTypeId(r)
    \/ \E r \in Reqs : CallGetPetsOfType(r)
    \/ \E r \in Reqs : DeleteFindType(r)
    \/ \E r \in Reqs : DeleteFindPet(r)
    \/ \E r \in Reqs : DeleteImageExists(r)
    \/ \E r \in Reqs : DeleteImageRemove(r)
    \/ \E r \in Reqs : DeleteOne(r)
    \/ \E r \in Reqs : DeletePull(r)
    \/ \E r \in Reqs : RemovalFailed(r)
    \/ \E r \in Reqs : RecordTransaction(r)
    \/ \E r \in Reqs : RecordFails(r)

SpecEmptyName == InitValidation /\ [][NextEmptyName]_vars

----------------------------------------------------------------------------
(* Purchases next to transaction queries, the ledger holding the entries   *)
(* of earlier purchases: the specification SpecLedger                      *)

\* The ledger after three earlier purchases.
EarlierPurchases ==
    <<[purchaser |-> "Ana", pet_type |-> "Bulldog", store |-> 1, purchase_id |-> 1],
      [purchaser |-> "Bob", pet_type |-> "bulldog", store |-> 2, purchase_id |-> 2],
      [purchaser |-> "Ana", pet_type |-> "Bulldog", store |-> 2, purchase_id |-> 3]>>

LedgersBefore == {<<>>, EarlierPurchases}

InitLedger ==
    /\ Stocked
    /\ ledger \in LedgersBefore
    /\ issued = Len(ledger)
    /\ proc = [r \in Reqs |-> Idle]
    /\ served = <<>>
    /\ started = 0
    /\ inserted = 0
    /\ failures = 0

BodiesLedger == {Body(Ana, Bulldog, IntV(2), Absent)}

Headers == {None, StrV(OwnerPC), StrV("lovespetsl2m3n4")}

NoArgs == [key \in {} |-> ""]

ArgsChecked ==
    {NoArgs,
     "store" :> "1",
     "store" :> "02",
     "store" :> "two",
     "purchaser" :> "ana",
     "pet-type" :> "Bulldog",
     "purchase-id" :> "id-2",
     ("purchaser" :> "Ana") @@ ("store" :> "2"),
     "pet-name" :> "Lazy",
     ("pet-name" :> "Lazy") @@ ("store" :> "1")}

NextLedger ==
    \/ \E r \in Reqs, body \in BodiesLedger : StartPurchase(r, body)
    \/ \E r \in Reqs, header \in Headers, args \in ArgsChecked :
          StartQuery(r, header, args)
    \/ \E r \in Reqs : QueryFind(r)
    \/ \E r \in Reqs : CallGetPetTypeId(r)
    \/ \E r \in Reqs : CallGetPetsOfType(r)
    \/ \E r \in Reqs : DeleteFindType(r)
    \/ \E r \in Reqs : DeleteFindPet(r)
    \/ \E r \in Reqs : DeleteImageExists(r)
    \/ \E r \in Reqs : DeleteImageRemove(r)
    \/ \E r \in Reqs : DeleteOne(r)
    \/ \E r \in Reqs : DeletePull(r)
    \/ \E r \in Reqs : RemovalFailed(r)
    \/ \E r \in Reqs : RecordTransaction(r)
    \/ \E r \in Reqs : RecordFails(r)

SpecLedger == InitLedger /\ [][NextLedger]_vars

----------------------------------------------------------------------------
(* Vocabulary of the properties *)

\* The pet documents of store s whose pet type is named pet_type, letter
\* case ignored.
PetsAvailable(pet_type, s) ==
    {d \in pets : /\ d.store_id = s
                  /\ \E t \in petTypes : /\ t.oid = d.pet_type_id
                                         /\ t.store_id = s
                                         /\ Lower(t.type) = Lower(pet_type)}

\* The stores a request with this store selector is resolved against.
Applicable(store) == IF Truthy(store) THEN {store.n} ELSE Stores

\* The names store s lists under pet type tid.
ListedNames(tid, s) ==
    {get_pets(tid, s).body[i].name : i \in 1..Len(get_pets(tid, s).body)}

\* The pet a resolution result stands for: store instance, pet type, name.
PetKey(res) == <<res.store_url, res.pet_type_id, res.pet.name>>

\* The thread of r takes this step.
Stepped(r) == proc'[r] # proc[r]

\* The thread of r ends in this step with the given status.
Ends(r, status) ==
    /\ proc[r].pc # "idle"
    /\ proc'[r].pc = "idle"
    /\ Len(served') = Len(served) + 1
    /\ served'[Len(served')].status = status

IsError(body) == "error" \in DOMAIN body

\* Two answered purchases that both resolved the same pet, each having read
\* it as the only candidate: they raced for the single remaining pet.
Raced(i, j) ==
    /\ i < j
    /\ served[i].result # None
    /\ served[j].result # None
    /\ PetKey(served[i].result) = PetKey(served[j].result)
    /\ served[i].sole
    /\ served[j].sole

----------------------------------------------------------------------------
(* C1: of two concurrent purchases that both target the same single        *)
(* remaining pet, at most one returns 201 and at most one ledger entry is  *)
(* written for that pet.                                                   *)
C1_AtMostOneSale ==
    \A i, j \in DOMAIN served :
        Raced(i, j) =>
            /\ ~(served[i].status = 201 /\ served[j].status = 201)
            /\ Cardinality({k \in DOMAIN ledger :
                   \E e \in {i, j} :
                       /\ served[e].status = 201
                       /\ ledger[k].purchase_id = served[e].body.purchase_id}) <= 1

(* C2: of two concurrent purchases for the same single remaining pet,      *)
(* exactly one returns 201 and the other is reported as a server fault     *)
(* (500).  Stated for races in which every call was answered and both      *)
(* ledger writes went through, where the claim leaves no other outcome.    *)
C2_OneSuccessOneFault ==
    \A i, j \in DOMAIN served :
        (/\ Raced(i, j)
         /\ served[i].failed = {} /\ served[j].failed = {}
         /\ \A e \in {i, j} :
               ~(IsError(served[e].body) /\ served[e].body.error = "Server error"))
        => {served[i].status, served[j].status} = {201, 500}

C4_RemovalFailedNoLedger ==
    [][\A r \in Reqs :
          (/\ proc[r].pc = "d_resp"
           /\ proc[r].h_status # 204
           /\ Stepped(r))
          => /\ proc[r].result # None
             /\ Ends(r, 500)
             /\ ledger' = ledger]_vars

\* A purchase whose removal the store answered with "not found" was
\* reported 500, and the ledger is empty.
C4_Witness ==
    \E i \in DOMAIN served :
        /\ served[i].status = 500
        /\ served[i].body.error = "Failed to remove pet from store"
        /\ served[i].result # None
        /\ served[i].failed = {}
        /\ ledger = <<>>

(* C5: a purchase for a pet type with no pet in any applicable store (the  *)
(* named store, or both stores when none is named) returns the             *)
(* no-availability error 400, writes no ledger entry and issues no removal *)
(* request.  Step by step: while no applicable store holds such a pet,     *)
(* resolution pools nothing and either goes on or ends with 400; the       *)
(* inventory only shrinks, so this covers the whole resolution.            *)
C5_NoPetNoPurchase ==
    [][\A r \in Reqs :
          (/\ proc[r].pc \in {"f_type", "f_pets"}
           /\ proc[r].pool = <<>>
           /\ \A s \in Applicable(proc[r].store) :
                 PetsAvailable(proc[r].pet_type, s) = {}
           /\ Stepped(r))
          => /\ \/ /\ proc'[r].pc \in {"f_type", "f_pets"}
                   /\ proc'[r].pool = <<>>
                   /\ served' = served
                \/ /\ Ends(r, 400)
                   /\ served'[Len(served')].body.error
                         = "No pet of this type is available"
             /\ ledger' = ledger
             /\ pets' = pets
             /\ petTypes' = petTypes]_vars

\* The only request so far, answered by every store it called, ended with
\* the no-availability error; no store held a pet of the type.
C5_Witness ==
    /\ started = 1
    /\ Len(served) = 1
    /\ served[1].status = 400
    /\ served[1].body.error = "No pet of this type is available"
    /\ served[1].failed = {}
    /\ \A s \in Stores : PetsAvailable("bulldog", s) = {}
    /\ ledger = <<>>

(* C6: the ledger entry of a purchase is appended only after the store has *)
(* confirmed that purchase's removal, and the ledger write is the last     *)
(* side effect of the purchase.                                            *)
C6_LedgerAfterRemoval ==
    [][ledger' # ledger =>
          \E r \in Reqs :
              /\ proc[r].pc = "d_resp"
              /\ proc[r].h_status = 204
              /\ PetDocs(proc[r].h_tid, proc[r].h_name, proc[r].h_store) = {}
              /\ ledger' = Append(ledger, Transaction(proc[r], Uuid4))
              /\ Ends(r, 201)
              /\ pets' = pets /\ petTypes' = petTypes /\ images' = images]_vars

\* A transaction is in the ledger and its purchase was answered 201.
C6_Witness ==
    /\ ledger # <<>>
    /\ \E i \in DOMAIN served :
          /\ served[i].status = 201
          /\ served[i].body.purchase_id = ledger[Len(ledger)].purchase_id

\* The candidates find_available_pet builds from the pets store s holds
\* under the type named pet_type, tagged with store.
CandidatesOf(pet_type, s) ==
    {[pet |-> [name |-> d.name, birthdate |-> d.birthdate, picture |-> d.picture],
      store |-> s, pet_type_id |-> d.pet_type_id, store_url |-> s] :
        d \in PetsAvailable(pet_type, s)}

Range(seq) == {seq[i] : i \in DOMAIN seq}

\* The call of this step was answered.
Answered == failures' = failures

(* C8: for a request with only a store given, when that store holds a pet  *)
(* of the requested type, resolution (its calls being answered) returns a  *)
(* pet held by that store under that type, never one of the other store,   *)
(* whatever the other store holds.                                         *)
C8_StoreOnlyStaysInStore ==
    [][\A r \in Reqs :
          (/\ Policy(proc[r].store, proc[r].pet_name) = 2
           /\ proc[r].pc \in {"f_type", "f_pets"}
           /\ PetsAvailable(proc[r].pet_type, proc[r].store.n) # {}
           /\ Stepped(r)
           /\ Answered)
          => IF proc[r].pc = "f_type"
             THEN proc'[r].pc = "f_pets"
             ELSE /\ proc'[r].pc = "d_type"
                  /\ proc'[r].result
                        \in CandidatesOf(proc[r].pet_type, proc[r].store.n)
                  /\ proc'[r].h_store = proc[r].store.n]_vars

\* A store-only request for store 1 has found a pet of store 1 while store 2
\* holds pets of the type too.
C8_Witness ==
    \E r \in Reqs :
        /\ proc[r].pc = "d_type"
        /\ proc[r].store = IntV(1)
        /\ proc[r].pet_name = None
        /\ proc[r].result.store = 1
        /\ PetsAvailable(proc[r].pet_type, 2) # {}

(* C9: for a request with neither store nor pet name, every candidate put  *)
(* into the pool is a pet that the store it is tagged with lists, at that  *)
(* read, under the pet type it is tagged with, and the candidate returned  *)
(* is one of the pool: a pet is never attributed to a store that did not   *)
(* list it.                                                                *)
C9_PooledCandidateWasListed ==
    [][\A r \in Reqs :
          (/\ Policy(proc[r].store, proc[r].pet_name) = 3
           /\ proc[r].pc \in {"f_type", "f_pets"}
           /\ Stepped(r))
          => /\ \A c \in Range(proc'[r].pool) \ Range(proc[r].pool) :
                   /\ c.store = proc[r].cur
                   /\ c \in CandidatesOf(proc[r].pet_type, c.store)
             /\ proc'[r].result # None =>
                   /\ proc'[r].result \in Range(proc'[r].pool)
                   /\ proc'[r].h_store = proc'[r].result.store
                   /\ proc'[r].h_tid = proc'[r].result.pet_type_id
                   /\ proc'[r].h_name = proc'[r].result.pet.name]_vars

\* A request with neither store nor pet name has pooled pets of both stores
\* and has been given one of store 2.
C9_Witness ==
    \E r \in Reqs :
        /\ proc[r].pc = "d_type"
        /\ proc[r].store = None
        /\ {c.store : c \in Range(proc[r].pool)} = Stores
        /\ proc[r].result.store = 2

(* C10: for a request with neither store nor pet name, every pet of the    *)
(* pooled candidates of both stores is a possible outcome of resolution:   *)
(* when the list of the second store is about to be read, each candidate   *)
(* already pooled and each pet the second store holds can be the result.   *)
C10_EveryCandidatePossible ==
    \A r \in Reqs :
        (/\ proc[r].pc = "f_pets"
         /\ proc[r].cur = 2
         /\ Policy(proc[r].store, proc[r].pet_name) = 3)
        => \A c \in Range(proc[r].pool) \cup CandidatesOf(proc[r].pet_type, 2) :
               ENABLED (CallGetPetsOfType(r) /\ proc'[r].result = c)

\* Two requests with neither store nor pet name have pooled pets of both
\* stores; one has been given a pet of store 1, the other a pet of store 2.
C10_Witness ==
    /\ \A r \in Reqs :
          /\ proc[r].pc = "d_type"
          /\ proc[r].store = None
          /\ {c.store : c \in Range(proc[r].pool)} = Stores
    /\ proc[1].result.store = 1
    /\ proc[2].result.store = 2

\* The pet-type documents of store s named pet_type, letter case ignored.
TypesNamed(pet_type, s) ==
    {t \in petTypes : t.store_id = s /\ Lower(t.type) = Lower(pet_type)}

\* The thread of r ends in this step with "no pet available".
EndsNotAvailable(r) ==
    /\ Ends(r, 400)
    /\ served'[Len(served')].body = ErrorBody("No pet of this type is available")

(* C7: for a request with store and pet name both given, each step of      *)
(* resolution (its call being answered) goes by the exact name: the type   *)
(* lookup finds the type of that store or reports not available, and the   *)
(* pet lookup returns the pet of exactly that name held by that store      *)
(* under that type when there is one, and reports not available when       *)
(* there is none, in particular after the pet was renamed or removed.      *)
C7_ExactNameOrNotAvailable ==
    [][\A r \in Reqs :
          (/\ Policy(proc[r].store, proc[r].pet_name) = 1
           /\ proc[r].pc \in {"f_type", "f_pets"}
           /\ Stepped(r)
           /\ Answered)
          => LET p == proc[r]
                 s == p.store.n
             IN  IF p.pc = "f_type"
                 THEN IF TypesNamed(p.pet_type, s) = {}
                      THEN EndsNotAvailable(r)
                      ELSE /\ proc'[r].pc = "f_pets"
                           /\ proc'[r].tid.n \in {t.oid : t \in TypesNamed(p.pet_type, s)}
                 ELSE LET named == IF TypeDocs(p.tid.n, s) = {} THEN {}
                                   ELSE PetDocs(p.tid.n, p.pet_name.s, s)
                      IN  IF named = {}
                          THEN EndsNotAvailable(r)
                          ELSE /\ proc'[r].pc = "d_type"
                               /\ proc'[r].result \in
                                    {[pet |-> [name |-> d.name,
                                               birthdate |-> d.birthdate,
                                               picture |-> d.picture],
                                      store |-> s, pet_type_id |-> p.tid.n,
                                      store_url |-> s] : d \in named}
                               /\ proc'[r].h_name = p.pet_name.s]_vars

\* The pet "Lazy" of a store was renamed to "Rex" (answer 200), and a later
\* purchase naming that store and "Lazy", all its calls answered, was told
\* that no pet is available, while the store still holds the renamed pet.
C7_Witness ==
    \E i, j \in DOMAIN served :
        /\ i < j
        /\ served[i].status = 200
        /\ served[i].body.name = "Rex"
        /\ served[j].status = 400
        /\ served[j].pet_name = StrV("Lazy")
        /\ served[j].failed = {}
        /\ served[j].body = ErrorBody("No pet of this type is available")
        /\ \E d \in pets : /\ d.name = "Rex"
                           /\ d.store_id = served[j].store.n
                           /\ d.birthdate = Birthdate("Lazy")

\* The record of served is the answer to a purchase request.
IsPurchase(rec) == rec.request # None /\ "is_json" \in DOMAIN rec.request

\* A JSON object whose purchaser, or whose pet-type, is text that is empty
\* after trimming.
EmptyNamed(body) ==
    /\ body.is_json /\ body.parsed /\ body.json = "object"
    /\ \/ IsStr(body.purchaser) /\ Strip(body.purchaser.s) = ""
       \/ IsStr(body.pet_type) /\ Strip(body.pet_type.s) = ""

(* C11: a purchase request whose purchaser or pet-type name is empty after *)
(* trimming is rejected by validation before resolution: no thread is ever *)
(* past validation with such a request, its answer is 400 "Malformed       *)
(* data", and no ledger entry carries an empty purchaser or pet type.      *)
C11_EmptyNamesRejected ==
    /\ \A r \in Reqs :
          (proc[r].pc # "idle" /\ proc[r].request # None)
              => ~EmptyNamed(proc[r].request)
    /\ \A i \in DOMAIN served :
          (IsPurchase(served[i]) /\ EmptyNamed(served[i].request))
              => /\ served[i].status = 400
                 /\ served[i].body = ErrorBody("Malformed data")
    /\ \A k \in DOMAIN ledger :
          ledger[k].purchaser # "" /\ ledger[k].pet_type # ""

\* A JSON object with text as pet name and no store selector.
NameWithoutStore(body) ==
    /\ body.is_json /\ body.parsed /\ body.json = "object"
    /\ IsStr(body.pet_name)
    /\ body.store.t = "absent"

(* C12: every purchase request in which a pet name is present (any text,   *)
(* the empty string included) and no store selector is present is rejected *)
(* with 400 without resolution: no thread is ever past validation with     *)
(* such a request, and its answer is 400 "Malformed data".                 *)
C12_NameWithoutStoreRejected ==
    /\ \A r \in Reqs :
          (proc[r].pc # "idle" /\ proc[r].request # None)
              => ~NameWithoutStore(proc[r].request)
    /\ \A i \in DOMAIN served :
          (IsPurchase(served[i]) /\ NameWithoutStore(served[i].request))
              => /\ served[i].status = 400
                 /\ served[i].body = ErrorBody("Malformed data")

\* A JSON object with a missing or mistyped purchaser, pet-type, store or
\* pet-name, a store outside {1, 2}, or a pet name without store.
Malformed(body) ==
    /\ body.is_json /\ body.parsed /\ body.json = "object"
    /\ \/ body.purchaser.t \notin {"str"}
       \/ body.pet_type.t \notin {"str"}
       \/ body.store.t \notin {"absent", "int"}
       \/ body.pet_name.t \notin {"absent", "str"}
       \/ body.store.t = "int" /\ body.store.n \notin {1, 2}
       \/ body.pet_name.t = "str" /\ body.pet_name.s # "" /\ body.store.t = "absent"

\* The answer is one of the two validation errors of post_purchase.
Rejected(rec) ==
    rec.body \in {ErrorBody("Malformed data"),
                  ErrorBody("Expected application/json media type")}

\* This step answers a purchase request.
AnswersPurchase ==
    /\ Len(served') = Len(served) + 1
    /\ IsPurchase(served'[Len(served')])

(* C13: a purchase request rejected by validation (a malformed request, or *)
(* any request answered with a validation error) is answered 400 or 415 in *)
(* the step it arrives in, so that no call to a store was issued for it,   *)
(* and that step leaves both inventories, the images and the ledger        *)
(* unchanged; no malformed request is ever past validation.                *)
C13_RejectedLeavesNoTrace ==
    [][/\ \A r \in Reqs :
            proc'[r].request # None => ~Malformed(proc'[r].request)
       /\ (/\ AnswersPurchase
           /\ \/ Malformed(served'[Len(served')].request)
              \/ Rejected(served'[Len(served')]))
          => /\ served'[Len(served')].status \in {400, 415}
             /\ Rejected(served'[Len(served')])
             /\ proc' = proc
             /\ started' = started + 1
             /\ UNCHANGED <<petTypes, pets, images, ledger, issued, failures>>]_vars

\* After a completed purchase a request naming store 3 was rejected; the
\* ledger holds the one entry of the purchase.
C13_Witness ==
    \E i, j \in DOMAIN served :
        /\ i < j
        /\ served[i].status = 201
        /\ IsPurchase(served[j])
        /\ served[j].request.store = IntV(3)
        /\ served[j].status = 400
        /\ Len(ledger) = 1

\* A request that fails validation: not JSON, JSON that does not parse or
\* is not an object, or a malformed object.
FailsValidation(body) ==
    \/ ~body.is_json
    \/ ~body.parsed
    \/ body.json # "object"
    \/ Malformed(body)

(* C14: every response of POST /purchases has status 201, 400 or 500: 201  *)
(* only for a completed purchase (its transaction is in the ledger), 400   *)
(* for every validation failure and for no availability, 500 only for a    *)
(* removal or persistence failure after resolution found a pet.            *)
C14_StatusesOfPurchase ==
    \A i \in DOMAIN served :
        IsPurchase(served[i]) =>
            /\ served[i].status \in {201, 400, 500}
            /\ served[i].status = 201 =>
                  \E k \in DOMAIN ledger :
                      ledger[k].purchase_id = served[i].body.purchase_id
            /\ FailsValidation(served[i].request) => served[i].status = 400
            /\ served[i].status = 500 =>
                  /\ served[i].result # None
                  /\ served[i].body \in
                        {ErrorBody("Failed to remove pet from store"),
                         ErrorBody("Server error")}

\* The call of this step was left unanswered.
Unanswered == failures' = failures + 1

(* C15: a call left unanswered by a store during resolution is treated as  *)
(* that store having no matching pets and is never surfaced as an error of *)
(* its own: with a store given the answer is "not available"; with neither *)
(* store nor pet name the search goes on to the next store with the pool   *)
(* as it was, and after the last store a pet of the pool is returned when  *)
(* there is one.  In particular, when store 1 left a call unanswered and   *)
(* store 2 answers holding pets of the type, a pet of store 2 is returned. *)
C15_UnreachableStoreIsEmpty ==
    [][\A r \in Reqs :
          (/\ proc[r].pc \in {"f_type", "f_pets"}
           /\ Stepped(r))
          => LET p == proc[r]
             IN  /\ ~Ends(r, 500)
                 /\ Unanswered =>
                       IF Policy(p.store, p.pet_name) # 3
                       THEN EndsNotAvailable(r)
                       ELSE IF p.cur = 1
                       THEN /\ proc'[r].pc = "f_type"
                            /\ proc'[r].cur = 2
                            /\ proc'[r].pool = p.pool
                       ELSE IF p.pool = <<>>
                       THEN EndsNotAvailable(r)
                       ELSE /\ proc'[r].pc = "d_type"
                            /\ proc'[r].result \in Range(p.pool)
                 /\ (/\ Answered
                     /\ Policy(p.store, p.pet_name) = 3
                     /\ p.pc = "f_pets"
                     /\ p.cur = 2
                     /\ p.failed = {1}
                     /\ PetsAvailable(p.pet_type, 2) # {})
                    => /\ proc'[r].pc = "d_type"
                       /\ proc'[r].result \in CandidatesOf(p.pet_type, 2)]_vars

\* A request with neither store nor pet name, a call of which store 1 left
\* unanswered while it held pets of the type, was given a pet of store 2.
C15_Witness ==
    \E r \in Reqs :
        /\ proc[r].pc = "d_type"
        /\ proc[r].store = None
        /\ proc[r].failed = {1}
        /\ proc[r].result.store = 2
        /\ PetsAvailable(proc[r].pet_type, 1) # {}

\* The record of served is the answer to a transaction query.
IsQuery(rec) == rec.request # None /\ "header" \in DOMAIN rec.request

(* C16: the ledger is append-only: in every step of purchases and          *)
(* transaction queries each entry written before is still at its place     *)
(* with unchanged purchaser, pet-type, store and purchase-id, and at most   *)
(* one entry is added at the end.                                          *)
C16_LedgerAppendOnly ==
    [][/\ Len(ledger') \in {Len(ledger), Len(ledger) + 1}
       /\ \A k \in DOMAIN ledger : ledger'[k] = ledger[k]]_vars

\* A purchase was recorded after the three earlier ones, and an authorized
\* query was answered.
C16_Witness ==
    /\ Len(ledger) = 4
    /\ SubSeq(ledger, 1, 3) = EarlierPurchases
    /\ \E i \in DOMAIN served : IsQuery(served[i]) /\ served[i].status = 200

(* C17: in every reachable state no two ledger entries carry the same      *)
(* purchase identifier (uuid4 identifiers being fresh), and an authorized  *)
(* transaction query filtered by purchase-id returned at most one record.  *)
C17_PurchaseIdsUnique ==
    /\ \A k, l \in DOMAIN ledger :
          ledger[k].purchase_id = ledger[l].purchase_id => k = l
    /\ \A i \in DOMAIN served :
          (/\ IsQuery(served[i])
           /\ served[i].status = 200
           /\ "purchase-id" \in DOMAIN served[i].request.args)
          => Len(served[i].body) <= 1

\* With four entries in the ledger a query filtered by a purchase-id was
\* answered with the one entry that carries it.
C17_Witness ==
    /\ Len(ledger) = 4
    /\ \E i \in DOMAIN served :
          /\ IsQuery(served[i])
          /\ served[i].status = 200
          /\ "purchase-id" \in DOMAIN served[i].request.args
          /\ Len(served[i].body) = 1

\* This step answers a transaction query.
AnswersQuery ==
    /\ Len(served') = Len(served) + 1
    /\ IsQuery(served'[Len(served')])

(* C18: a transaction query whose OwnerPC header is absent or differs from *)
(* the secret is answered 401 "Unauthorized", without any transaction      *)
(* record, whatever its arguments, in the step it arrives in: it never     *)
(* reaches the step that builds the filter and reads the ledger.           *)
C18_UnauthorizedQueryRejected ==
    [][/\ \A r \in Reqs :
            proc'[r].pc = "q_find" => proc'[r].request.header = StrV(OwnerPC)
       /\ (/\ AnswersQuery
           /\ served'[Len(served')].request.header # StrV(OwnerPC))
          => /\ served'[Len(served')].status = 401
             /\ served'[Len(served')].body = ErrorBody("Unauthorized")
             /\ proc' = proc
             /\ started' = started + 1
             /\ UNCHANGED <<ledger, failures>>]_vars

\* With entries in the ledger, a query without the header and a query with
\* a wrong header, one of them filtered, were both answered 401.
C18_Witness ==
    /\ Len(ledger) >= 3
    /\ \E i, j \in DOMAIN served :
          /\ IsQuery(served[i]) /\ IsQuery(served[j])
          /\ served[i].request.header = None
          /\ served[j].request.header = StrV("lovespetsl2m3n4")
          /\ served[j].request.args = ("store" :> "1")
          /\ served[i].status = 401
          /\ served[j].status = 401

\* The ledger entry equals the supplied value on every recognized key
\* present, the store being compared as an integer.
Matches(entry, args) ==
    /\ "purchaser" \in DOMAIN args => entry.purchaser = args["purchaser"]
    /\ "pet-type" \in DOMAIN args => entry.pet_type = args["pet-type"]
    /\ "store" \in DOMAIN args =>
          /\ IntOf(args["store"]) # None
          /\ entry.store = IntOf(args["store"]).n
    /\ "purchase-id" \in DOMAIN args =>
          entry.purchase_id = PurchaseIdOf(args["purchase-id"])

\* The entries of the ledger, in order, that match the arguments.
Matching(args) ==
    LET Test(entry) == Matches(entry, args)
    IN  SelectSeq(ledger, Test)

(* C19: an authorized transaction query, when the ledger answers, returns  *)
(* 200 with exactly the ledger entries that equal the supplied value on    *)
(* every recognized key present (the store as an integer when its value    *)
(* parses as one); unrecognized keys do not change the result, and with no *)
(* recognized key the whole ledger is returned.                            *)
C19_QueryReturnsMatching ==
    [][(/\ AnswersQuery
        /\ served'[Len(served')].request.header = StrV(OwnerPC))
       => LET rec == served'[Len(served')]
              args == rec.request.args
          IN  /\ rec.status = IF Answered THEN 200 ELSE 500
              /\ rec.status = 200 =>
                    /\ rec.body = Matching(args)
                    /\ DOMAIN args \cap RecognizedKeys = {} => rec.body = ledger
              /\ ledger' = ledger]_vars

\* A purchase by Ana from store 2 was recorded after the three earlier
\* purchases, and the query for purchaser Ana and store 2 returned two of
\* the four entries.
C19_Witness ==
    /\ Len(ledger) = 4
    /\ \E i \in DOMAIN served :
          /\ IsQuery(served[i])
          /\ served[i].status = 200
          /\ served[i].request.args = ("purchaser" :> "Ana") @@ ("store" :> "2")
          /\ Len(served[i].body) = 2

\* The positions of a purchase thread inside its removal request.
Removing == {"d_type", "d_pet", "d_exists", "d_remove", "d_delete", "d_pull", "d_resp"}

(* C20: nothing is retried.  A purchase runs resolution once (each store   *)
(* is asked at most once, in order, and resolution is never entered again  *)
(* after it returned), issues at most one removal request (after the       *)
(* answer of the store the request ends), aims that request at the pet its *)
(* resolution chose, and removes no other pet.                             *)
C20_NothingRetried ==
    [][\A r \in Reqs :
          (~proc[r].direct /\ Stepped(r) /\ proc[r].pc # "idle")
          => LET p == proc[r]
                 q == proc'[r]
             IN  /\ p.pc \in Removing => q.pc \in Removing \cup {"idle"}
                 /\ p.pc = "d_resp" => q.pc = "idle"
                 /\ (p.pc = "f_pets" /\ q.pc = "f_type") =>
                       (p.store = None /\ p.cur = 1 /\ q.cur = 2)
                 /\ (p.pc = "f_type" /\ q.pc = "f_type") =>
                       (p.store = None /\ p.cur = 1 /\ q.cur = 2)
                 /\ q.pc \in Removing =>
                       /\ q.result # None
                       /\ <<q.h_store, q.h_tid, q.h_name>> = PetKey(q.result)
                       /\ p.pc \in Removing => q.result = p.result
                 /\ \A d \in pets \ pets' :
                       /\ <<d.store_id, d.pet_type_id, d.name>> = PetKey(p.result)
                       /\ pets \ pets' = {d}]_vars

\* A purchase whose removal was not confirmed was answered 500 while the
\* store it had chosen from still holds another pet of the type.
C20_Witness ==
    \E i \in DOMAIN served :
        /\ served[i].status = 500
        /\ served[i].body = ErrorBody("Failed to remove pet from store")
        /\ served[i].failed = {}
        /\ \E d \in pets :
              /\ d.store_id = served[i].result.store_url
              /\ d.pet_type_id = served[i].result.pet_type_id
              /\ d.name # served[i].result.pet.name

(* C21: if the ledger write fails after the removal was confirmed, the     *)
(* purchase returns 500 and ends, the ledger is as it was, and the step    *)
(* leaves the inventory alone: the removed pet is not created again.       *)
C21_LedgerFailureNoRollback ==
    [][\A r \in Reqs :
          (/\ proc[r].pc = "d_resp"
           /\ ~proc[r].direct
           /\ delete_pet_from_store(proc[r].h_status)
           /\ Stepped(r)
           /\ Unanswered)
          => /\ Ends(r, 500)
             /\ served'[Len(served')].body = ErrorBody("Server error")
             /\ ledger' = ledger
             /\ UNCHANGED <<pets, petTypes, images>>
             /\ PetDocs(proc[r].h_tid, proc[r].h_name, proc[r].h_store) = {}]_vars

\* A purchase whose removal was confirmed was answered 500 "Server error":
\* the ledger is empty and the pet it had chosen is gone from the store.
C21_Witness ==
    \E i \in DOMAIN served :
        /\ IsPurchase(served[i])
        /\ served[i].status = 500
        /\ served[i].body = ErrorBody("Server error")
        /\ served[i].result # None
        /\ ledger = <<>>
        /\ PetDocs(served[i].result.pet_type_id, served[i].result.pet.name,
                   served[i].result.store_url) = {}

----------------------------------------------------------------------------
\* The record of served is the answer to a client of a store.
IsCall(rec, method) ==
    rec.request # None /\ "method" \in DOMAIN rec.request /\ rec.request.method = method

\* No request is in progress.
Quiet == \A r \in Reqs : proc[r].pc = "idle"

(* C22: a pet type is never deleted while it has pets: whatever the        *)
(* interleaving of DELETE pet-type with POST pet, once the requests are    *)
(* answered (no call having failed) no pet record is left whose pet type   *)
(* no longer exists in its store.                                          *)
C22_NoPetWithoutType ==
    (Quiet /\ failures = 0) =>
        \A d \in pets : TypeDocs(d.pet_type_id, d.store_id) # {}

(* C23: a pet name is unique within its type and store: after any          *)
(* interleaving of POST pet and PUT pet requests (no call having failed),  *)
(* no two pet records of one type and store carry the same name.           *)
C23_PetNameUnique ==
    (Quiet /\ failures = 0) =>
        \A d1, d2 \in pets :
            (/\ d1.store_id = d2.store_id
             /\ d1.pet_type_id = d2.pet_type_id
             /\ d1.name = d2.name) => d1 = d2

\* The pet record as the store returns it
PetView(d) == [name |-> d.name, birthdate |-> d.birthdate, picture |-> d.picture]

\* What store t lists to its clients when the collections hold the
\* documents T and P: its pet types, and the pets of each of its types.
Listing(T, P, t) ==
    [types |-> {TypeView(d) : d \in {x \in T : x.store_id = t}},
     pets |-> {<<d.pet_type_id, PetView(d)>> :
                 d \in {x \in P : /\ x.store_id = t
                                  /\ \E y \in T : /\ y.oid = x.pet_type_id
                                                  /\ y.store_id = t}}]

\* The pet types of store s with this name, letter case ignored.
TypesOfStore(name, s) ==
    {d \in petTypes : d.store_id = s /\ Lower(d.type) = Lower(name)}

(* C25: the stores are isolated although they share one database: what a  *)
(* store lists (GET /pet-types gives its own pet types, GET pets the pets  *)
(* of one of its types) changes only in a step of a request sent to that   *)
(* store; a GET /pet-types answer of a store, with or without a family     *)
(* filter, holds only pet types of that store; and the lookup of POST      *)
(* /pet-types lets a type name pass that no type of its own store          *)
(* carries, whatever the other store holds.                                *)
C25_StoresIsolated ==
    [][/\ \A t \in Stores :
             /\ Range(query_pet_types(t, Absent)) = Listing(petTypes, pets, t).types
             /\ \A d \in petTypes :
                   Range(get_pets(d.oid, t).body) =
                      {v[2] : v \in {x \in Listing(petTypes, pets, t).pets :
                                       x[1] = d.oid}}
             /\ Listing(petTypes', pets', t) # Listing(petTypes, pets, t)
                => \E r \in Reqs : /\ Stepped(r)
                                   /\ proc[r].pc # "idle"
                                   /\ proc[r].direct
                                   /\ proc[r].h_store = t
       /\ (/\ Len(served') = Len(served) + 1
           /\ IsCall(served'[Len(served')], "GET pet-types")
           /\ served'[Len(served')].status = 200)
          => LET answer == served'[Len(served')]
             IN  \A i \in DOMAIN answer.body :
                    \E d \in petTypes : /\ d.oid = answer.body[i].id
                                        /\ d.store_id = answer.request.store_id
       /\ \A r \in Reqs :
             (/\ proc[r].pc = "y_find"
              /\ Stepped(r)
              /\ Answered
              /\ TypesOfStore(proc[r].h_name, proc[r].h_store) = {})
             => proc'[r].pc = "y_fetch"]_vars

\* The type "Abyssinian" was created in both stores (two answers 201), and
\* each store holds its own document of that name.
C25_Witness ==
    /\ \A s \in Stores :
          \E i \in DOMAIN served :
             /\ IsCall(served[i], "POST pet-type")
             /\ served[i].request.store_id = s
             /\ served[i].status = 201
             /\ served[i].body.type = "Abyssinian"
    /\ \A s \in Stores : TypesOfStore("Abyssinian", s) # {}

(* C26: GET /pet-types/{id}/pets without date filters returns exactly the  *)
(* pets created under that type in that store and not since deleted, each  *)
(* with the birthdate it was created with: the answer lists exactly the    *)
(* pet records of that type and store; a record enters only by the         *)
(* insertion of a POST pet request to that type and store, with the        *)
(* trimmed name and the birthdate of its body ("NA" without one); and a    *)
(* record leaves only by the deletion of a DELETE request for that pet or  *)
(* for its type.                                                           *)
C26_GetPetsListsCreated ==
    [][/\ (/\ Len(served') = Len(served) + 1
           /\ IsCall(served'[Len(served')], "GET pets")
           /\ served'[Len(served')].status = 200)
          => LET answer == served'[Len(served')]
                 records == PetsOfType(answer.request.pet_type_id,
                                       answer.request.store_id)
             IN  /\ Range(answer.body) = {PetView(d) : d \in records}
                 /\ Len(answer.body) = Cardinality(records)
       /\ \A d \in pets' \ pets :
             \E r \in Reqs :
                /\ proc[r].pc = "c_insert"
                /\ Stepped(r)
                /\ LET call == proc[r].request
                   IN  /\ d.store_id = call.store_id
                       /\ d.pet_type_id = call.pet_type_id
                       /\ d.name = Strip(call.data.name.s)
                       /\ d.birthdate = IF call.data.birthdate = Absent THEN "NA"
                                        ELSE call.data.birthdate.s
       /\ \A d \in pets \ pets' :
             \E r \in Reqs :
                /\ Stepped(r)
                /\ proc[r].h_store = d.store_id
                /\ proc[r].h_tid = d.pet_type_id
                /\ \/ proc[r].pc = "d_delete" /\ proc[r].h_name = d.name
                   \/ proc[r].pc = "t_many"]_vars

\* POST pet with the name "Rex" and the birthdate "01-01-2020" was answered
\* 201 by store 2 for its bulldog type, and a later GET of the pets of that
\* type lists Rex with that birthdate next to Lazy and Lemon.
C26_Witness ==
    \E i, j \in DOMAIN served :
        /\ i < j
        /\ IsCall(served[i], "POST pet")
        /\ served[i].request.store_id = 2
        /\ served[i].request.pet_type_id = 2
        /\ served[i].status = 201
        /\ IsCall(served[j], "GET pets")
        /\ served[j].request.store_id = 2
        /\ served[j].request.pet_type_id = 2
        /\ served[j].status = 200
        /\ Len(served[j].body) = 3
        /\ [name |-> "Rex", birthdate |-> "01-01-2020", picture |-> "NA"]
              \in Range(served[j].body)
        /\ [name |-> "Lazy", birthdate |-> "07-08-2018", picture |-> "NA"]
              \in Range(served[j].body)

(* C27: for any one pet record at most one DELETE pet request is answered  *)
(* 204: two DELETE requests for the same pet of a store, the only requests *)
(* so far, are never both answered 204.                                    *)
C27_OneDeleteAnswered ==
    ~ \E r1, r2 \in Reqs :
        /\ r1 # r2
        /\ served = <<>>
        /\ inserted = 0
        /\ \A r \in {r1, r2} : /\ proc[r].pc = "d_resp"
                               /\ proc[r].direct
                               /\ proc[r].h_status = 204
        /\ proc[r1].h_store = proc[r2].h_store
        /\ proc[r1].h_tid = proc[r2].h_tid
        /\ proc[r1].h_name = proc[r2].h_name

\* The pet types of store s whose name differs from pet_type in letter case
\* only.
TypesSpelledOtherwise(pet_type, s) ==
    {t \in TypesNamed(pet_type, s) : t.type # pet_type}

\* The pets of type tid in store s whose name differs from pet_name in
\* letter case only.
PetsSpelledOtherwise(tid, pet_name, s) ==
    {d \in PetsOfType(tid, s) : d.name # pet_name /\ Lower(d.name) = Lower(pet_name)}

(* C24: resolution matches the pet-type name ignoring letter case and the  *)
(* pet name exactly: an answered type lookup of a request whose pet-type   *)
(* differs only in case from a type of the store yields that type, and an  *)
(* answered pet lookup of a request with store and pet name, whose name    *)
(* differs only in case from a pet of the type and equals none, reports    *)
(* that no pet is available.                                               *)
C24_TypeAnyCaseNameExact ==
    [][\A r \in Reqs :
          (/\ proc[r].pc \in {"f_type", "f_pets"}
           /\ Stepped(r)
           /\ Answered)
          => LET p == proc[r]
             IN  /\ (/\ p.pc = "f_type"
                     /\ TypesSpelledOtherwise(p.pet_type, p.cur) # {})
                    => /\ proc'[r].pc = "f_pets"
                       /\ proc'[r].tid.n \in
                            {t.oid : t \in TypesSpelledOtherwise(p.pet_type, p.cur)}
                 /\ (/\ p.pc = "f_pets"
                     /\ Policy(p.store, p.pet_name) = 1
                     /\ PetsSpelledOtherwise(p.tid.n, p.pet_name.s, p.cur) # {}
                     /\ PetDocs(p.tid.n, p.pet_name.s, p.cur) = {})
                    => EndsNotAvailable(r)]_vars

\* A purchase of "BULLDOG" "Lemon" from store 2 was answered 201 for the
\* pet of the type "bulldog", and a purchase of "BULLDOG" "lemon" from
\* store 2, all its calls answered, was told that no pet is available while
\* the store held "Lemon".
C24_Witness ==
    \E i, j \in DOMAIN served :
        /\ i > j
        /\ IsPurchase(served[i])
        /\ served[i].request.pet_type = StrV("BULLDOG")
        /\ served[i].request.pet_name = StrV("Lemon")
        /\ served[i].status = 201
        /\ served[i].result.pet_type_id = 2
        /\ IsPurchase(served[j])
        /\ served[j].request.pet_type = StrV("BULLDOG")
        /\ served[j].request.pet_name = StrV("lemon")
        /\ served[j].request.store = IntV(2)
        /\ served[j].status = 400
        /\ served[j].body = ErrorBody("No pet of this type is available")
        /\ served[j].failed = {}
        /\ failures = 0

(* C30: in every state in which no inventory request is in progress (no    *)
(* call having failed), the pet-name list of each pet type of a store      *)
(* holds exactly the names of the pet records stored under that type and   *)
(* store.                                                                  *)
C30_ListMatchesRecords ==
    (Quiet /\ failures = 0) =>
        \A t \in petTypes :
            Range(t.pets) = {d.name : d \in PetsOfType(t.oid, t.store_id)}

(* C28: a successful purchase removes exactly the pet named in its         *)
(* response from the store named in its response: the delete_one call of   *)
(* the removal made for a purchase, when answered, takes the record of the *)
(* pet the purchase resolved, and only that record, out of the store.      *)
C28_PurchaseRemovesItsPet ==
    [][\A r \in Reqs :
          (/\ proc[r].pc = "d_delete"
           /\ ~proc[r].direct
           /\ proc'[r].pc = "d_pull")
          => \E d \in PetDocs(proc[r].result.pet_type_id, proc[r].result.pet.name,
                              proc[r].result.store_url) :
                /\ d \in pets
                /\ pets' = pets \ {d}]_vars

(* C29: for every purchase that returned 201 the ledger holds exactly one  *)
(* entry with the returned purchase-id; its purchaser, pet-type and store  *)
(* equal those of the response, and that store is the one whose DELETE     *)
(* was answered 204 and which no longer holds the pet.                     *)
C29_OneEntryPerPurchase ==
    \A i \in DOMAIN served :
        (IsPurchase(served[i]) /\ served[i].status = 201) =>
            LET b == served[i].body
                res == served[i].result
                entries == {k \in DOMAIN ledger : ledger[k].purchase_id = b.purchase_id}
            IN  /\ Cardinality(entries) = 1
                /\ \A k \in entries :
                      /\ ledger[k].purchaser = b.purchaser
                      /\ ledger[k].pet_type = b.pet_type
                      /\ ledger[k].store = b.store
                /\ b.store = res.store_url
                /\ PetDocs(res.pet_type_id, res.pet.name, res.store_url) = {}

\* A purchase that named no store was answered 201 for a pet of store 2,
\* and the ledger entry with its purchase-id names store 2.
C29_Witness ==
    \E i \in DOMAIN served :
        /\ IsPurchase(served[i])
        /\ served[i].status = 201
        /\ served[i].request.store = Absent
        /\ served[i].result.store_url = 2
        /\ \E k \in DOMAIN ledger :
              /\ ledger[k].purchase_id = served[i].body.purchase_id
              /\ ledger[k].store = 2

(* C31: a purchase request that names a store and carries the empty string *)
(* as pet name is handled under the store-only policy: it passes           *)
(* validation, and when the store holds pets of the type, resolution (its  *)
(* calls being answered) returns one of the pets listed by that store      *)
(* under that type and does not report "not available" for the name.       *)
C31_EmptyNameIsStoreOnly ==
    [][\A r \in Reqs :
          (/\ proc[r].pc \in {"f_type", "f_pets"}
           /\ Truthy(proc[r].store)
           /\ proc[r].pet_name = StrV("")
           /\ PetsAvailable(proc[r].pet_type, proc[r].store.n) # {}
           /\ Stepped(r)
           /\ Answered)
          => /\ ~EndsNotAvailable(r)
             /\ IF proc[r].pc = "f_type"
                THEN proc'[r].pc = "f_pets"
                ELSE /\ proc'[r].pc = "d_type"
                     /\ proc'[r].result
                           \in CandidatesOf(proc[r].pet_type, proc[r].store.n)
                     /\ proc'[r].result.pet.name # ""
                     /\ proc'[r].h_name = proc'[r].result.pet.name]_vars

\* Two purchases naming store 2 with the pet name "" were answered 201,
\* one for Lazy and one for Lemon: either pet of the store can be the one
\* returned.
C31_Witness ==
    \E i, j \in DOMAIN served :
        /\ \A e \in {i, j} : /\ IsPurchase(served[e])
                             /\ served[e].request.pet_name = StrV("")
                             /\ served[e].request.store = IntV(2)
                             /\ served[e].status = 201
                             /\ served[e].body.store = 2
        /\ i < j
        /\ served[i].body.pet_name = "Lemon"
        /\ served[j].body.pet_name = "Lazy"

====
